---- MODULE Spec2Model ----
(***************************************************************************)
(* Model of the sdjsongrab cache synchronisation (src/sdjsongrab.py,       *)
(* src/lib/sqlhelper.py, src/lib/util.py).                                 *)
(*                                                                         *)
(* Representation of Python / SQL values:                                  *)
(*   - Python None and SQL NULL are the empty tuple  None == <<>>;         *)
(*     every other cell value v is the one-element tuple <<v>>.            *)
(*   - a JSON object that the code only indexes by key is a TLA+ record;   *)
(*     a dict the code iterates over is a sequence of <<key, value>>       *)
(*     pairs in insertion order.                                           *)
(*   - a table is the sequence of its rows in rowid order; a row is a      *)
(*     function from the table's column names to cells.                    *)
(*   - a program identifier is the sequence of its characters.             *)
(*   - a calendar day "YYYY-MM-DD" is <<Y, M, D>>, a time stamp            *)
(*     "YYYY-MM-DDThh:mm:ssZ" is <<Y, M, D, h, m, s>>.                     *)
(***************************************************************************)
EXTENDS Integers, Sequences, FiniteSets, TLC

None == <<>>
Some(v) == <<v>>

(***************************************************************************)
(* Program constants                                                       *)
(***************************************************************************)
CURRENT_DATABASE_SCHEMA_VERSION == 0
MAX_STATIONS_IDS == 5000
MAX_PROGRAM_IDS == 5000
MAX_ARTWORK_IDS == 500
SENTINEL_MD5 == "CAFEDEADBEEFCAFEDEADBE"

(***************************************************************************)
(* Generic sequence and dict helpers                                       *)
(***************************************************************************)
Range(s) == {s[i] : i \in 1..Len(s)}

IndexOf(s, x) == CHOOSE i \in 1..Len(s) : s[i] = x /\ \A j \in 1..(i-1) : s[j] # x

RemoveAt(s, i) == SubSeq(s, 1, i-1) \o SubSeq(s, i+1, Len(s))

\* ordered dict: sequence of <<key, value>>
DictKeys(d) == [i \in 1..Len(d) |-> d[i][1]]
DictHas(d, k) == \E i \in 1..Len(d) : d[i][1] = k
DictGet(d, k) == d[CHOOSE i \in 1..Len(d) : d[i][1] = k][2]
DictPut(d, k, v) ==
    IF DictHas(d, k) THEN [i \in 1..Len(d) |-> IF d[i][1] = k THEN <<k, v>> ELSE d[i]]
    ELSE Append(d, <<k, v>>)

\* "sep".join(list) on strings
RECURSIVE JoinStr(_, _)
JoinStr(list, sep) ==
    IF Len(list) = 0 THEN ""
    ELSE IF Len(list) = 1 THEN list[1]
    ELSE list[1] \o sep \o JoinStr(Tail(list), sep)

(***************************************************************************)
(* lib/util.py                                                             *)
(***************************************************************************)
IsLeap(y) == (y % 4 = 0) /\ ((y % 100 # 0) \/ (y % 400 = 0))

DaysBeforeYear(y) == (y-1)*365 + ((y-1) \div 4) - ((y-1) \div 100) + ((y-1) \div 400)

DaysBeforeMonth(y, m) ==
    <<0, 31, 59, 90, 120, 151, 181, 212, 243, 273, 304, 334>>[m]
      + (IF m > 2 /\ IsLeap(y) THEN 1 ELSE 0)

\* datetime.date(y, m, d).toordinal()
ToOrdinal(y, m, d) == DaysBeforeYear(y) + DaysBeforeMonth(y, m) + d

\* date_to_int("YYYY-MM-DD")
date_to_int(daystring) ==
    IF daystring = None THEN None
    ELSE Some(ToOrdinal(daystring[1], daystring[2], daystring[3]))

\* sdtime_to_unixtime("YYYY-MM-DDThh:mm:ssZ"); the naive datetime is read in
\* the local zone, modelled as UTC
sdtime_to_unixtime(s) ==
    IF s = None THEN None
    ELSE Some((ToOrdinal(s[1], s[2], s[3]) - 719163) * 86400
              + s[4] * 3600 + s[5] * 60 + s[6])

\* a chunker that yields full chunks only
RECURSIVE chunker_dropping(_, _)
chunker_dropping(seq, size) ==
    IF Len(seq) < size THEN <<>>
    ELSE <<SubSeq(seq, 1, size)>> \o chunker_dropping(SubSeq(seq, size+1, Len(seq)), size)

\* chunker(seq, size): the list of the chunks the generator yields
RECURSIVE chunker(_, _)
chunker(seq, size) ==
    IF Len(seq) = 0 THEN <<>>
    ELSE IF Len(seq) <= size THEN <<seq>>
    ELSE <<SubSeq(seq, 1, size)>> \o chunker(SubSeq(seq, size+1, Len(seq)), size)

(***************************************************************************)
(* lib/sqlhelper.py: Query_builder                                         *)
(* A query builder is [table, fields, values, raised]; raised records an   *)
(* exception thrown while it was filled.                                   *)
(***************************************************************************)
Query_builder(table) == [table |-> table, fields |-> <<>>, values |-> <<>>, raised |-> FALSE]

\* mutation of add: a field given twice silently replaces the earlier value
add_lastwins(qb, field, value, override) ==
    IF qb.raised THEN qb
    ELSE IF field \in Range(qb.fields)
    THEN [qb EXCEPT !.fields = Append(RemoveAt(qb.fields, IndexOf(qb.fields, field)), field),
                    !.values = Append(RemoveAt(qb.values, IndexOf(qb.fields, field)), value)]
    ELSE [qb EXCEPT !.fields = Append(qb.fields, field),
                    !.values = Append(qb.values, value)]

\* Query_builder.add; the IndexError is recorded in raised
add(qb, field, value, override) ==
    IF qb.raised THEN qb
    ELSE IF field \in Range(qb.fields)
    THEN IF override
         THEN LET po == IndexOf(qb.fields, field)
              IN [qb EXCEPT !.fields = Append(RemoveAt(qb.fields, po), field),
                            !.values = Append(RemoveAt(qb.values, po), value)]
         ELSE [qb EXCEPT !.raised = TRUE]
    ELSE [qb EXCEPT !.fields = Append(qb.fields, field),
                    !.values = Append(qb.values, value)]

(***************************************************************************)
(* The sqlite cursor.  A cursor state is [t, w, exc]: t the tables, w the  *)
(* write statements executed so far (newest last), exc set once a          *)
(* statement or the code around it has raised.                             *)
(***************************************************************************)
Columns(table) ==
    CASE table = "lineups" -> {"lineupname", "name", "modified", "uri"}
      [] table = "scheduleindex" -> {"id", "station_id", "startdate", "last_modified", "md5"}
      [] table = "schedule" -> {"station_id", "scheduleindex", "program_id", "airtime",
                                "duration", "audioProperties", "videoProperties"}
      [] table = "programdata" -> {"program_id", "md5", "last_access", "title120",
                                   "description100", "description1000", "genres100",
                                   "episodetitle158", "cast1000", "crew1000", "entity_type",
                                   "show_type", "movie_year", "artwork_uri", "artwort_caption",
                                   "artwork_width", "artwork_height"}
      [] table = "stations" -> {"station_id", "name", "broadcast_language", "last_modified",
                                "active", "query_from_sd", "logo_uri", "logo_width",
                                "logo_height", "logo_md5"}

\* a new database file: empty tables, PRAGMA user_version as the code expects it
EmptyTables == [lineups |-> <<>>, scheduleindex |-> <<>>, schedule |-> <<>>, programdata |-> <<>>,
                stations |-> <<>>, user_version |-> CURRENT_DATABASE_SCHEMA_VERSION]

Cursor(tables) == [t |-> tables, w |-> <<>>, exc |-> FALSE]

Raise(cu) == [cu EXCEPT !.exc = TRUE]

\* value of a field of the query, None if the query does not carry it
QueryValue(qb, field) ==
    IF field \in Range(qb.fields) THEN qb.values[IndexOf(qb.fields, field)] ELSE None

\* rowid of the next inserted row: one more than the largest in the table
NextRowId(rows) ==
    IF Len(rows) = 0 THEN 1
    ELSE 1 + (CHOOSE m \in {rows[i]["id"][1] : i \in 1..Len(rows)} :
                 \A i \in 1..Len(rows) : rows[i]["id"][1] <= m)

\* SQL "col = ?": NULL equals nothing
SqlEq(cell, param) == cell # None /\ param # None /\ cell = param

\* SELECT * FROM table WHERE col=? ; fetchone()
SelectOne(cu, table, col, param) ==
    LET rows == cu.t[table]
        hits == {i \in 1..Len(rows) : SqlEq(rows[i][col], param)}
    IN IF hits = {} THEN None
       ELSE Some(rows[CHOOSE i \in hits : \A j \in hits : i <= j])

\* Query_builder.execute_insert
execute_insert(cu, qb) ==
    IF cu.exc THEN cu
    ELSE IF qb.raised THEN Raise(cu)
    ELSE LET rows == cu.t[qb.table]
             row == [c \in Columns(qb.table) |->
                        IF c \in Range(qb.fields) THEN QueryValue(qb, c)
                        ELSE IF c = "id" THEN Some(NextRowId(rows))
                        ELSE None]
         IN [cu EXCEPT !.t[qb.table] = Append(rows, row),
                       !.w = Append(cu.w, <<"INSERT", qb.table, row>>)]

\* Query_builder.execute_update with the where clause "wherecol=?"
execute_update(cu, qb, wherecol, whereparam) ==
    IF cu.exc THEN cu
    ELSE IF qb.raised THEN Raise(cu)
    ELSE LET rows == cu.t[qb.table]
             upd(row) == [c \in Columns(qb.table) |->
                             IF c \in Range(qb.fields) THEN QueryValue(qb, c) ELSE row[c]]
         IN [cu EXCEPT !.t[qb.table] =
                           [i \in 1..Len(rows) |->
                               IF SqlEq(rows[i][wherecol], whereparam)
                               THEN upd(rows[i]) ELSE rows[i]],
                       !.w = Append(cu.w, <<"UPDATE", qb.table, wherecol, whereparam,
                                            qb.fields, qb.values>>)]

\* DELETE FROM table WHERE col=?
execute_delete(cu, table, col, param) ==
    IF cu.exc THEN cu
    ELSE LET rows == cu.t[table]
         IN [cu EXCEPT !.t[table] = SelectSeq(rows, LAMBDA r : ~SqlEq(r[col], param)),
                       !.w = Append(cu.w, <<"DELETE", table, col, param>>)]

\* mutation of SameCompareValue: the compare field is ignored
SameCompareValue_ignored(r, compare_query_field, compval) == FALSE

\* mutation of SameCompareValue: a row is skipped whenever a compare field is given
SameCompareValue_anyvalue(r, compare_query_field, compval) == compare_query_field # None

\* compare_query_field is not None and r[compare_query_field] == compval
SameCompareValue(r, compare_query_field, compval) ==
    compare_query_field # None /\ r[compare_query_field[1]] = compval

\* Query_builder.insert_or_update; the result is [cu, res], res the boolean
\* the method returns (meaningless when cu.exc)
insert_or_update(cu, qb, select_database_field, compare_query_field) ==
    IF cu.exc THEN [cu |-> cu, res |-> FALSE]
    ELSE IF \/ qb.raised
            \/ select_database_field \notin Range(qb.fields)
            \/ (compare_query_field # None /\ compare_query_field[1] \notin Range(qb.fields))
    THEN [cu |-> Raise(cu), res |-> FALSE]
    ELSE LET selval == QueryValue(qb, select_database_field)
             compval == IF compare_query_field # None
                        THEN QueryValue(qb, compare_query_field[1]) ELSE None
             r == SelectOne(cu, qb.table, select_database_field, selval)
         IN IF r = None
            THEN [cu |-> execute_insert(cu, qb), res |-> TRUE]
            ELSE IF SameCompareValue(r[1], compare_query_field, compval)
            THEN [cu |-> cu, res |-> FALSE]
            ELSE [cu |-> execute_update(cu, qb, select_database_field, selval), res |-> TRUE]

(***************************************************************************)
(* sdjsongrab.py: conversion helpers                                       *)
(***************************************************************************)
\* dict.get on a record
RecGet(rec, key) == IF key \in DOMAIN rec THEN Some(rec[key]) ELSE None

\* first value of an ordered dict found under one of searchkeys (tried in order)
RECURSIVE FirstKeyValue(_, _)
FirstKeyValue(item, searchkeys) ==
    IF Len(searchkeys) = 0 THEN None
    ELSE IF DictHas(item, Head(searchkeys)) THEN Some(DictGet(item, Head(searchkeys)))
    ELSE FirstKeyValue(item, Tail(searchkeys))

RECURSIVE SearchDictList(_, _)
SearchDictList(datadict, searchkeys) ==
    IF Len(datadict) = 0 THEN None
    ELSE LET a == FirstKeyValue(Head(datadict), searchkeys)
         IN IF a # None THEN a ELSE SearchDictList(Tail(datadict), searchkeys)

\* the values of a list of ordered dicts, in iteration order
RECURSIVE AllValues(_)
AllValues(datadict) ==
    IF Len(datadict) = 0 THEN <<>>
    ELSE [i \in 1..Len(Head(datadict)) |-> Head(datadict)[i][2]] \o AllValues(Tail(datadict))

\* longest value not longer than maxlength, the first one among equals
RECURSIVE LongestUpTo(_, _, _)
LongestUpTo(vals, maxlength, result) ==
    IF Len(vals) = 0 THEN result
    ELSE LET a == Head(vals)
             take == Len(a) <= maxlength /\ (result = None \/ Len(a) > Len(result[1]))
         IN LongestUpTo(Tail(vals), maxlength, IF take THEN Some(a) ELSE result)

get_from_simple_dict_list(datadict, searchkeys, maxlength) ==
    IF datadict = None THEN None
    ELSE LET result == SearchDictList(datadict[1], searchkeys)
         IN IF result # None THEN result
            ELSE LongestUpTo(AllValues(datadict[1]), maxlength, None)

\* a language tag is the sequence of its lower-case subtags: "en-GB" is <<"en", "gb">>
LangMatches(lang, lkey) == Len(lang) >= 1 /\ lang[1] = lkey

\* scan of one description list; acc = [result, default_value]
RECURSIVE ScanLanguages(_, _, _, _, _)
ScanLanguages(items, languagekey, valuekey, languages, acc) ==
    IF Len(items) = 0 THEN acc
    ELSE LET item == Head(items)
             value == RecGet(item, valuekey)
             lang == RecGet(item, languagekey)
             acc1 == IF value = None \/ lang = None THEN acc
                     ELSE [result |-> IF \E i \in 1..Len(languages) :
                                            LangMatches(lang[1], languages[i])
                                      THEN value ELSE acc.result,
                           default_value |-> IF LangMatches(lang[1], "en")
                                             THEN value ELSE acc.default_value]
         IN ScanLanguages(Tail(items), languagekey, valuekey, languages, acc1)

RECURSIVE ScanDescriptions(_, _, _, _, _, _)
ScanDescriptions(datadict, searchkeys, languagekey, valuekey, languages, acc) ==
    IF Len(datadict) = 0 THEN acc
    ELSE LET itemkey == Head(datadict)[1]
             acc1 == IF itemkey \in Range(searchkeys)
                     THEN ScanLanguages(Head(datadict)[2], languagekey, valuekey, languages, acc)
                     ELSE acc
         IN ScanDescriptions(Tail(datadict), searchkeys, languagekey, valuekey, languages, acc1)

get_from_dict_list_with_languages(datadict, searchkeys, languagekey, valuekey, languages) ==
    IF datadict = None THEN None
    ELSE LET r == ScanDescriptions(datadict[1], searchkeys, languagekey, valuekey, languages,
                                   [result |-> None, default_value |-> None])
         IN IF r.result = None THEN r.default_value ELSE r.result

calc_string_from_stringlist(stringlist) == Some(JoinStr(stringlist, "\t"))

\* scan of the metadata list; acc = [season, episode]
RECURSIVE ScanGracenote(_, _)
ScanGracenote(list_of_dicts, acc) ==
    IF Len(list_of_dicts) = 0 THEN acc
    ELSE LET item == Head(list_of_dicts)
             acc1 == IF "Gracenote" \in DOMAIN item
                     THEN [season |-> RecGet(item.Gracenote, "season"),
                           episode |-> RecGet(item.Gracenote, "episode")]
                     ELSE acc
         IN IF acc1.season # None /\ acc1.episode # None THEN acc1
            ELSE ScanGracenote(Tail(list_of_dicts), acc1)

\* "%dx%02d" % (season, episode)
calc_episode_number(list_of_dicts) ==
    IF list_of_dicts = None THEN None
    ELSE LET r == ScanGracenote(list_of_dicts[1], [season |-> None, episode |-> None])
         IN IF r.season = None \/ r.episode = None THEN None
            ELSE Some(ToString(r.season[1]) \o "x"
                      \o (IF r.episode[1] < 10 THEN "0" ELSE "") \o ToString(r.episode[1]))

_get_cast_crew_string(list_of_dicts, name_key, role_key) ==
    LET clist == [i \in 1..Len(list_of_dicts) |->
                     IF role_key \in DOMAIN list_of_dicts[i]
                     THEN list_of_dicts[i][name_key] \o "|" \o list_of_dicts[i][role_key]
                     ELSE list_of_dicts[i][name_key]]
    IN IF clist = <<>> THEN None ELSE Some(JoinStr(clist, "\t"))

get_casts_string(list_of_dicts) == _get_cast_crew_string(list_of_dicts, "name", "characterName")

get_crew_string(list_of_dicts) == _get_cast_crew_string(list_of_dicts, "name", "role")

\* SD_QueryBuilder.add2; converted stands for conv_fun(self.data[data_key])
\* (the raw value without conv_fun), which is evaluated only when the key
\* is present
add2(qb, data, database_key, data_key, optional, converted) ==
    IF qb.raised THEN qb
    ELSE IF data_key \notin DOMAIN data
    THEN IF optional THEN qb ELSE [qb EXCEPT !.raised = TRUE]
    ELSE add(qb, database_key, converted, FALSE)

\* an id that is not shortened
shorten_program_id_whole(program_id) == program_id

\* SD_API.shorten_program_id: program_id[:10]
shorten_program_id(program_id) ==
    SubSeq(program_id, 1, IF Len(program_id) < 10 THEN Len(program_id) ELSE 10)

\* SD_API.calc_program_artwork_info: artworkinfo.get(short id)
calc_program_artwork_info(program_id, artworkinfo) ==
    IF DictHas(artworkinfo, shorten_program_id(program_id))
    THEN Some(DictGet(artworkinfo, shorten_program_id(program_id)))
    ELSE None

\* SD_API.calc_short_program_ids
RECURSIVE calc_short_program_ids_from(_, _)
calc_short_program_ids_from(program_ids, shortend_progids) ==
    IF Len(program_ids) = 0 THEN shortend_progids
    ELSE LET short == shorten_program_id(Head(program_ids))
         IN calc_short_program_ids_from(Tail(program_ids),
                IF short \in Range(shortend_progids) THEN shortend_progids
                ELSE Append(shortend_progids, short))

calc_short_program_ids(program_ids) == calc_short_program_ids_from(program_ids, <<>>)

(***************************************************************************)
(* SD_API.proc_program_artwork_info                                        *)
(* A uri is <<scheme, rest>>, scheme "" for a relative one.                *)
(***************************************************************************)
\* best_match: None stands for the IndexError of list(current_list)[0] on an
\* empty key view (the guard "current_list == []" never holds for a key view)
RECURSIVE FirstPreferred(_, _)
FirstPreferred(current_list, preferred_list) ==
    IF Len(preferred_list) = 0 THEN None
    ELSE IF Head(preferred_list) \in Range(current_list) THEN Some(Head(preferred_list))
    ELSE FirstPreferred(current_list, Tail(preferred_list))

\* a match that takes the first entry whatever is preferred
best_match_first(current_list, preferred_list) ==
    IF Len(current_list) = 0 THEN None ELSE Some(current_list[1])

best_match(current_list, preferred_list) ==
    LET p == FirstPreferred(current_list, preferred_list)
    IN IF p # None THEN p
       ELSE IF Len(current_list) = 0 THEN None
       ELSE Some(current_list[1])

calc_artwork_uri(uri) ==
    IF uri[1] \in {"http:", "https:"} THEN uri
    ELSE <<"https:", "//json.schedulesdirect.org/20141201/image/" \o uri[2]>>

\* the asset dict: category -> size -> list of (uri, caption, width, height)
RECURSIVE BuildAssets(_, _)
BuildAssets(dat, assets) ==
    IF Len(dat) = 0 THEN assets
    ELSE LET item == Head(dat)
             caption == IF "caption" \in DOMAIN item
                        THEN RecGet(item.caption, "content") ELSE None
             entry == <<calc_artwork_uri(item.uri), caption,
                        RecGet(item, "width"), RecGet(item, "height")>>
         IN IF "category" \notin DOMAIN item \/ "size" \notin DOMAIN item
            THEN BuildAssets(Tail(dat), assets)
            ELSE LET bycat == IF DictHas(assets, item.category)
                              THEN DictGet(assets, item.category) ELSE <<>>
                     bucket == IF DictHas(bycat, item.size)
                               THEN DictGet(bycat, item.size) ELSE <<>>
                 IN BuildAssets(Tail(dat),
                        DictPut(assets, item.category,
                                DictPut(bycat, item.size, Append(bucket, entry))))

CategoryPreference == <<"Iconic", "Banner-L1", "Cast Ensemble", "Cast in Character">>
SizePreference == <<"Md", "Sm", "Lg", "Xs", "Ms">>

\* acc = [res, exc]; program_art.data is Some(list) or None for an error entry
RECURSIVE proc_program_artwork_info_from(_, _)
proc_program_artwork_info_from(data, acc) ==
    IF Len(data) = 0 \/ acc.exc THEN acc
    ELSE LET program_art == Head(data)
         IN IF program_art.data = None
            THEN proc_program_artwork_info_from(Tail(data), acc)
            ELSE LET assets == BuildAssets(program_art.data[1], <<>>)
                     best_cat == best_match(DictKeys(assets), CategoryPreference)
                 IN IF best_cat = None THEN [acc EXCEPT !.exc = TRUE]
                    ELSE LET sizes == DictGet(assets, best_cat[1])
                             best_size == best_match(DictKeys(sizes), SizePreference)
                         IN proc_program_artwork_info_from(Tail(data),
                                [acc EXCEPT !.res = DictPut(acc.res, program_art.programID,
                                                     DictGet(sizes, best_size[1])[1])])

proc_program_artwork_info(data) ==
    proc_program_artwork_info_from(data, [res |-> <<>>, exc |-> FALSE])

(***************************************************************************)
(* SDDB: the cache store                                                   *)
(***************************************************************************)
\* SELECT * FROM scheduleindex WHERE station_id=? AND startdate=? ; fetchone()
SelectScheduleIndex(cu, station_id, startdate_ord) ==
    LET rows == cu.t.scheduleindex
        hits == {i \in 1..Len(rows) : /\ SqlEq(rows[i]["station_id"], Some(station_id))
                                      /\ SqlEq(rows[i]["startdate"], startdate_ord)}
    IN IF hits = {} THEN None
       ELSE Some(rows[CHOOSE i \in hits : \A j \in hits : i <= j])

ScheduleIndexQuery(station_id, startdate_ord, entry) ==
    LET q1 == add(Query_builder("scheduleindex"), "station_id", Some(station_id), FALSE)
        q2 == add(q1, "startdate", startdate_ord, FALSE)
        q3 == add2(q2, entry, "last_modified", "lastModified", FALSE,
                   sdtime_to_unixtime(entry.lastModified))
    IN add2(q3, entry, "md5", "md5", FALSE,
                   Some(entry.md5))

\* mutation of IsInvalidSchedule: the sentinel is taken for a fingerprint
IsInvalidSchedule_never(day_md5) == FALSE

\* day_md5 == "CAFEDEADBEEFCAFEDEADBE"
IsInvalidSchedule(day_md5) == day_md5 = SENTINEL_MD5

\* mutation of ScheduleChanged: every stored day counts as changed
ScheduleChanged_always(res, day_md5) == res # None

\* res is not None and res["md5"] != day_md5
ScheduleChanged(res, day_md5) == res # None /\ res[1]["md5"] # Some(day_md5)

\* mutation of DeleteOwnedSchedule: the entries of the changed day are kept
DeleteOwnedSchedule_kept(cu, schedindex_to_update) == cu

\* the DELETE FROM schedule issued for a changed day
DeleteOwnedSchedule(cu, schedindex_to_update) ==
    execute_delete(cu, "schedule", "scheduleindex", schedindex_to_update)

\* a loop body that stores the changed fingerprint in a new row
StoreScheduleIndexDay_insert(acc, station_id, startdate, entry) ==
    LET startdate_ord == date_to_int(startdate)
        day_md5 == entry.md5
        res == SelectScheduleIndex(acc.cu, station_id, startdate_ord)
        changed == ScheduleChanged(res, day_md5)
        skip_processing == res # None /\ ~changed
        cu1 == IF changed THEN DeleteOwnedSchedule(acc.cu, res[1]["id"]) ELSE acc.cu
        cu2 == execute_insert(cu1, ScheduleIndexQuery(station_id, startdate_ord, entry))
        days == IF DictHas(acc.new_schedules, station_id)
                THEN DictGet(acc.new_schedules, station_id) ELSE <<>>
    IN IF acc.cu.exc THEN acc
       ELSE IF IsInvalidSchedule(day_md5)
       THEN [acc EXCEPT !.count_invalid_schedules = @ + 1]
       ELSE IF skip_processing THEN acc
       ELSE [acc EXCEPT !.cu = cu2,
                        !.new_schedules = DictPut(@, station_id, Append(days, startdate))]

\* body of the loops of store_schedule_index for one (station_id, startdate);
\* acc = [cu, new_schedules, count_invalid_schedules]
StoreScheduleIndexDay(acc, station_id, startdate, entry) ==
    LET startdate_ord == date_to_int(startdate)
        day_md5 == entry.md5
        res == SelectScheduleIndex(acc.cu, station_id, startdate_ord)
        changed == ScheduleChanged(res, day_md5)
        skip_processing == res # None /\ ~changed
        cu1 == IF changed THEN DeleteOwnedSchedule(acc.cu, res[1]["id"]) ELSE acc.cu
        qb == ScheduleIndexQuery(station_id, startdate_ord, entry)
        cu2 == IF res = None THEN execute_insert(cu1, qb)
               ELSE execute_update(cu1, qb, "id", res[1]["id"])
        days == IF DictHas(acc.new_schedules, station_id)
                THEN DictGet(acc.new_schedules, station_id) ELSE <<>>
    IN IF acc.cu.exc THEN acc
       ELSE IF IsInvalidSchedule(day_md5)
       THEN [acc EXCEPT !.count_invalid_schedules = @ + 1]
       ELSE IF skip_processing THEN acc
       ELSE [acc EXCEPT !.cu = cu2,
                        !.new_schedules = DictPut(@, station_id, Append(days, startdate))]

RECURSIVE StoreScheduleIndexDays(_, _, _)
StoreScheduleIndexDays(acc, station_id, days) ==
    IF Len(days) = 0 THEN acc
    ELSE StoreScheduleIndexDays(
             StoreScheduleIndexDay(acc, station_id, Head(days)[1], Head(days)[2]),
             station_id, Tail(days))

RECURSIVE StoreScheduleIndexStations(_, _)
StoreScheduleIndexStations(acc, data) ==
    IF Len(data) = 0 THEN acc
    ELSE StoreScheduleIndexStations(
             StoreScheduleIndexDays(acc, Head(data)[1], Head(data)[2]), Tail(data))

\* SDDB.store_schedule_index: [cu, new_schedules, count_invalid_schedules]
store_schedule_index(cu, data) ==
    StoreScheduleIndexStations(
        [cu |-> cu, new_schedules |-> <<>>, count_invalid_schedules |-> 0], data)

\* a lookup that answers with id 0 where there is no row
get_schedule_index_zero(cu, station_id, startdate) ==
    LET r == SelectScheduleIndex(cu, station_id, date_to_int(startdate))
    IN IF r = None THEN Some(0) ELSE r[1]["id"]

\* SDDB.get_schedule_index: the id cell, None if there is no such row
get_schedule_index(cu, station_id, startdate) ==
    LET r == SelectScheduleIndex(cu, station_id, date_to_int(startdate))
    IN IF r = None THEN None ELSE r[1]["id"]

ScheduleQuery(station_id, schedule_index, program) ==
    LET q1 == add(Query_builder("schedule"), "station_id", Some(station_id), FALSE)
        q2 == add(q1, "scheduleindex", schedule_index, FALSE)
        q3 == add(q2, "program_id", Some(program.programID), FALSE)
        q4 == add2(q3, program, "airtime", "airDateTime", FALSE,
                   sdtime_to_unixtime(program.airDateTime))
        q5 == add2(q4, program, "duration", "duration", FALSE,
                   Some(program.duration))
        q6 == add2(q5, program, "audioProperties", "audioProperties", TRUE,
                   calc_string_from_stringlist(program.audioProperties))
    IN add2(q6, program, "videoProperties", "videoProperties", TRUE,
                   calc_string_from_stringlist(program.videoProperties))

\* a lookup that finds no program
StoredProgramMd5_none(cu, program_id) == None

\* SELECT md5 FROM programdata WHERE program_id=?
StoredProgramMd5(cu, program_id) ==
    LET r == SelectOne(cu, "programdata", "program_id", Some(program_id))
    IN IF r = None THEN None ELSE r[1]["md5"]

\* acc = [cu, update_programs]
RECURSIVE StoreSchedulePrograms(_, _, _, _)
StoreSchedulePrograms(acc, station_id, schedule_index, programs) ==
    IF Len(programs) = 0 \/ acc.cu.exc THEN acc
    ELSE LET program == Head(programs)
             cu1 == execute_insert(acc.cu, ScheduleQuery(station_id, schedule_index, program))
             pmd5 == StoredProgramMd5(cu1, program.programID)
             open == (pmd5 = None \/ pmd5 # Some(program.md5))
                        /\ program.programID \notin Range(acc.update_programs)
         IN StoreSchedulePrograms(
                [cu |-> cu1,
                 update_programs |-> IF open /\ ~cu1.exc
                                     THEN Append(acc.update_programs, program.programID)
                                     ELSE acc.update_programs],
                station_id, schedule_index, Tail(programs))

\* SDDB.store_schedules: [cu, update_programs]
RECURSIVE store_schedules_from(_, _)
store_schedules_from(acc, data) ==
    IF Len(data) = 0 \/ acc.cu.exc THEN acc
    ELSE LET item == Head(data)
             schedule_index == get_schedule_index(acc.cu, item.stationID, item.metadata.startDate)
         IN IF schedule_index = None THEN [acc EXCEPT !.cu = Raise(acc.cu)]
            ELSE store_schedules_from(
                     StoreSchedulePrograms(acc, item.stationID, schedule_index, item.programs),
                     Tail(data))

store_schedules(cu, data) == store_schedules_from([cu |-> cu, update_programs |-> <<>>], data)

\* the query store_programs builds for one program
ProgramQuery(item, artwork_info, now) ==
    LET q1 == add2(Query_builder("programdata"), item, "md5", "md5", FALSE,
                   Some(item.md5))
        q2 == add2(q1, item, "program_id", "programID", FALSE,
                   Some(item.programID))
        q3 == add(q2, "last_access", Some(now), FALSE)
        q4 == add(q3, "title120",
                  get_from_simple_dict_list(RecGet(item, "titles"), <<"title120">>, 120), FALSE)
        q5 == add(q4, "description100",
                  get_from_dict_list_with_languages(RecGet(item, "descriptions"),
                      <<"description100">>, "descriptionLanguage", "description",
                      <<"en", "de">>), FALSE)
        q6 == add(q5, "description1000",
                  get_from_dict_list_with_languages(RecGet(item, "descriptions"),
                      <<"description1000">>, "descriptionLanguage", "description",
                      <<"en", "de">>), FALSE)
        q7 == add2(q6, item, "genres100", "genres", TRUE,
                   calc_string_from_stringlist(item.genres))
        episode_number == calc_episode_number(RecGet(item, "metadata"))
        q8 == IF "episodeTitle150" \notin DOMAIN item THEN q7
              ELSE add(q7, "episodetitle158",
                       IF episode_number # None
                       THEN Some(episode_number[1] \o ": " \o item.episodeTitle150)
                       ELSE Some(item.episodeTitle150), FALSE)
        q9 == add2(q8, item, "cast1000", "cast", TRUE,
                   get_casts_string(item.cast))
        q10 == add2(q9, item, "crew1000", "crew", TRUE,
                   get_crew_string(item.crew))
        q11 == add2(q10, item, "entity_type", "entityType", TRUE,
                   Some(item.entityType))
        q12 == add2(q11, item, "show_type", "showType", TRUE,
                   Some(item.showType))
        q13 == IF "movie" \in DOMAIN item /\ "year" \in DOMAIN item.movie
               THEN add(q12, "movie_year", Some(item.movie.year), FALSE) ELSE q12
        art == IF artwork_info = None \/ q13.raised THEN None
               ELSE calc_program_artwork_info(item.programID, artwork_info[1])
    IN IF art = None THEN q13
       ELSE add(add(add(add(q13, "artwork_uri", Some(art[1][1]), FALSE),
                        "artwort_caption", art[1][2], FALSE),
                    "artwork_width", art[1][3], FALSE),
                "artwork_height", art[1][4], FALSE)

\* a merge that leaves a stored program as it is
StoreProgram_insertonly(cu, item, artwork_info, now) ==
    IF SelectOne(cu, "programdata", "program_id", Some(item.programID)) = None
    THEN execute_insert(cu, ProgramQuery(item, artwork_info, now))
    ELSE cu

\* the merge of one program record
StoreProgram(cu, item, artwork_info, now) ==
    insert_or_update(cu, ProgramQuery(item, artwork_info, now), "program_id", Some("md5")).cu

\* SDDB.store_programs
RECURSIVE store_programs(_, _, _, _)
store_programs(cu, data, artwork_info, now) ==
    IF Len(data) = 0 \/ cu.exc THEN cu
    ELSE store_programs(StoreProgram(cu, Head(data), artwork_info, now),
                        Tail(data), artwork_info, now)

(***************************************************************************)
(* sdjsongrab.py: status, lineups and stations (stage A)                   *)
(* A status object is [code, notifications, systemStatus, account,         *)
(* lineups]; a station list is [stations |-> items], an item being         *)
(* [type |-> "dict", value |-> record] or an item of another type.         *)
(***************************************************************************)
\* SD_API.check_status
check_status(status) ==
    /\ status.code = 0
    /\ \A i \in 1..Len(status.systemStatus) : status.systemStatus[i].status = "Online"

\* SD_API.has_expired: exp < time.time()
has_expired(status, now) == sdtime_to_unixtime(status.account.expires)[1] < now

\* SD_API.calc_lineups_and_modified_date_from_status
calc_lineups_and_modified_date_from_status(status) ==
    [i \in 1..Len(status.lineups) |->
        <<Some(status.lineups[i].lineup), sdtime_to_unixtime(status.lineups[i].modified)>>]

\* SD_API.get_lineup_mapping on the mapping get_status has filled: the uri of
\* the last entry of the listing with the id, None without one
get_lineup_mapping(status, lineup_id) ==
    LET hits == {i \in 1..Len(status.lineups) : Some(status.lineups[i].lineup) = lineup_id}
    IN IF hits = {} THEN None
       ELSE Some(status.lineups[CHOOSE i \in hits : \A j \in hits : j <= i].uri)

\* SDDB.get_lineups_and_modified_date
get_lineups_and_modified_date(cu) ==
    [i \in 1..Len(cu.t.lineups) |->
        <<cu.t.lineups[i]["lineupname"], cu.t.lineups[i]["modified"]>>]

\* a watch set of every active station, marked for querying or not
get_active_query_stations_all(cu) ==
    LET rows == SelectSeq(cu.t.stations, LAMBDA r : SqlEq(r["active"], Some(1)))
    IN [i \in 1..Len(rows) |-> rows[i]["station_id"][1]]

\* SDDB.get_active_query_stations(withname=False)
get_active_query_stations(cu) ==
    LET rows == SelectSeq(cu.t.stations,
                          LAMBDA r : SqlEq(r["query_from_sd"], Some(1)) /\ SqlEq(r["active"], Some(1)))
    IN [i \in 1..Len(rows) |-> rows[i]["station_id"][1]]

\* mutation of get_unactive_query_stations: every inactive station is reported
get_unactive_query_stations_all(cu) ==
    LET rows == SelectSeq(cu.t.stations, LAMBDA r : SqlEq(r["active"], Some(0)))
    IN [i \in 1..Len(rows) |-> <<rows[i]["station_id"], rows[i]["name"]>>]

\* SDDB.get_unactive_query_stations
get_unactive_query_stations(cu) ==
    LET rows == SelectSeq(cu.t.stations,
                          LAMBDA r : SqlEq(r["query_from_sd"], Some(1)) /\ SqlEq(r["active"], Some(0)))
    IN [i \in 1..Len(rows) |-> <<rows[i]["station_id"], rows[i]["name"]>>]

\* UPDATE table SET col=? (no WHERE clause)
execute_update_all(cu, table, col, value) ==
    IF cu.exc THEN cu
    ELSE [cu EXCEPT !.t[table] = [i \in 1..Len(cu.t[table]) |->
                                     [cu.t[table][i] EXCEPT ![col] = value]],
                    !.w = Append(cu.w, <<"UPDATE", table, "", None, <<col>>, <<value>>>>)]

\* mutation of set_query_station: the station is switched off altogether
set_query_station_active(cu, station_id, do_query) ==
    IF SelectOne(cu, "stations", "station_id", Some(station_id)) = None
    THEN [cu |-> cu, res |-> "station not found"]
    ELSE [cu |-> execute_update(cu,
                     add(add(Query_builder("stations"), "query_from_sd",
                             Some(IF do_query THEN 1 ELSE 0), FALSE),
                         "active", Some(IF do_query THEN 1 ELSE 0), FALSE),
                     "station_id", Some(station_id)),
          res |-> "ok"]

\* SDDB.set_query_station; res is "ok" or the "station ... not found" message
set_query_station(cu, station_id, do_query) ==
    IF SelectOne(cu, "stations", "station_id", Some(station_id)) = None
    THEN [cu |-> cu, res |-> "station not found"]
    ELSE [cu |-> execute_update(cu,
                     add(Query_builder("stations"), "query_from_sd",
                         Some(IF do_query THEN 1 ELSE 0), FALSE),
                     "station_id", Some(station_id)),
          res |-> "ok"]

\* the merge of one lineup of the status; acc = [cu, new_lineups]
StoreLineupFromStatus(acc, lineup) ==
    LET q1 == add2(Query_builder("lineups"), lineup, "lineupname", "lineup", FALSE,
                   Some(lineup.lineup))
        q2 == add2(q1, lineup, "name", "name", FALSE,
                   Some(lineup.name))
        q3 == add2(q2, lineup, "modified", "modified", FALSE,
                   sdtime_to_unixtime(lineup.modified))
        r == insert_or_update(acc.cu, q3, "lineupname", Some("modified"))
    IN [cu |-> r.cu,
        new_lineups |-> IF r.res /\ ~r.cu.exc THEN Append(acc.new_lineups, lineup)
                        ELSE acc.new_lineups]

\* SDDB.store_lineups_from_status
RECURSIVE store_lineups_from_status_from(_, _)
store_lineups_from_status_from(acc, lineups) ==
    IF Len(lineups) = 0 \/ acc.cu.exc THEN acc
    ELSE store_lineups_from_status_from(StoreLineupFromStatus(acc, Head(lineups)), Tail(lineups))

store_lineups_from_status(cu, data) ==
    store_lineups_from_status_from([cu |-> cu, new_lineups |-> <<>>], data.lineups)

\* mutation of deactivate_all_stations: the stations keep their flag
deactivate_all_stations_none(cu) == cu

\* SDDB.deactivate_all_stations
deactivate_all_stations(cu) == execute_update_all(cu, "stations", "active", Some(0))

\* the query store_lineup_station builds for one station
StationQuery(item, now) ==
    LET q1 == add2(Query_builder("stations"), item, "station_id", "stationID", FALSE,
                   Some(item.stationID))
        q2 == add2(q1, item, "name", "name", FALSE,
                   Some(item.name))
        q3 == add2(q2, item, "broadcast_language", "broadcastLanguage", FALSE,
                   calc_string_from_stringlist(item.broadcastLanguage))
        q4 == add(q3, "last_modified", Some(now), FALSE)
        q5 == add(q4, "active", Some(1), FALSE)
    IN IF "logo" \in DOMAIN item
       THEN add(add(add(add(q5, "logo_uri", Some(item.logo.URL), FALSE),
                        "logo_width", Some(item.logo.width), FALSE),
                    "logo_height", Some(item.logo.height), FALSE),
                "logo_md5", Some(item.logo.md5), FALSE)
       ELSE q5

\* SDDB.store_lineup_station, the loop over data["stations"]
RECURSIVE StoreStations(_, _, _)
StoreStations(cu, stations, now) ==
    IF Len(stations) = 0 \/ cu.exc THEN cu
    ELSE IF Head(stations).type # "dict" THEN StoreStations(cu, Tail(stations), now)
    ELSE StoreStations(insert_or_update(cu, StationQuery(Head(stations).value, now),
                                        "station_id", None).cu,
                       Tail(stations), now)

\* SDDB.store_lineup_station; data is None when the request has failed
store_lineup_station(cu, data, now) ==
    IF cu.exc THEN cu
    ELSE IF data = None THEN Raise(cu)
    ELSE StoreStations(cu, data[1].stations, now)

\* a removal of a lineup that takes the stations with it
delete_lineup_from_db_stations(cu, lineup_id) ==
    LET cu1 == execute_delete(cu, "lineups", "lineupname", lineup_id)
    IN [cu1 EXCEPT !.t.stations = <<>>]

\* SDDB.delete_lineup_from_db
delete_lineup_from_db(cu, lineup_id) == execute_delete(cu, "lineups", "lineupname", lineup_id)

\* the lineup ids of a list of (id, stamp) that are not among those of another
LineupsNotIn(lineup_data, other) ==
    SelectSeq(lineup_data, LAMBDA x : \A j \in 1..Len(other) : other[j][1] # x[1])

\* stamp of the first entry of a list of (id, stamp) with the id
StampOf(lineup_data, lineup_id) ==
    lineup_data[CHOOSE i \in 1..Len(lineup_data) :
                   /\ lineup_data[i][1] = lineup_id
                   /\ \A j \in 1..(i-1) : lineup_data[j][1] # lineup_id][2]

\* mutation of ModifiedLineups: the stamps are not compared
ModifiedLineups_none(old_lineup_data, new_lineup_data) == {}

\* mutation of ModifiedLineups: every common id counts as modified
ModifiedLineups_always(old_lineup_data, new_lineup_data) ==
    {y[1] : y \in {z \in Range(old_lineup_data) :
                      \E j \in 1..Len(new_lineup_data) : new_lineup_data[j][1] = z[1]}}

\* modified_lineups: the common ids whose stamps differ
ModifiedLineups(old_lineup_data, new_lineup_data) ==
    {x[1] : x \in {y \in Range(old_lineup_data) :
                      /\ \E j \in 1..Len(new_lineup_data) : new_lineup_data[j][1] = y[1]
                      /\ StampOf(old_lineup_data, y[1]) # StampOf(new_lineup_data, y[1])}}

RECURSIVE DeleteLineups(_, _)
DeleteLineups(cu, deleted_lineups) ==
    IF Len(deleted_lineups) = 0 THEN cu
    ELSE DeleteLineups(delete_lineup_from_db(cu, Head(deleted_lineups)[1]), Tail(deleted_lineups))

\* the loop over new_lineup_data: get_lineup_stations and store_lineup_station
\* for each lineup; acc = [cu, fetched], fetched the lineup ids asked for;
\* stations[uri] is what the service answers, None for a failed request; a
\* lineup without uri makes the request itself raise
RECURSIVE RefreshStations(_, _, _, _, _)
RefreshStations(acc, status, new_lineup_data, stations, now) ==
    IF Len(new_lineup_data) = 0 \/ acc.cu.exc THEN acc
    ELSE LET lineup_id == Head(new_lineup_data)[1]
             uri == get_lineup_mapping(status, lineup_id)
         IN IF uri = None THEN [acc EXCEPT !.cu = Raise(acc.cu)]
            ELSE RefreshStations([cu |-> store_lineup_station(acc.cu, stations[uri[1]], now),
                                  fetched |-> Append(acc.fetched, lineup_id[1])],
                                 status, Tail(new_lineup_data), stations, now)

\* SDDB.refresh_lineups_and_stations_if_needed; the result is
\* [cu, refresh_lineups, fetched]
refresh_lineups_and_stations_if_needed(cu, status, stations, now) ==
    LET old_lineup_data == get_lineups_and_modified_date(cu)
        new_lineup_data == calc_lineups_and_modified_date_from_status(status)
        deleted_lineups == LineupsNotIn(old_lineup_data, new_lineup_data)
        new_lineups == LineupsNotIn(new_lineup_data, old_lineup_data)
        modified_lineups == ModifiedLineups(old_lineup_data, new_lineup_data)
        cu1 == DeleteLineups(cu, deleted_lineups)
        refresh_lineups == Len(new_lineups) # 0 \/ Len(deleted_lineups) # 0
                              \/ modified_lineups # {}
    IN IF refresh_lineups
       THEN LET cu2 == store_lineups_from_status(cu1, status).cu
                cu3 == deactivate_all_stations(cu2)
                r == RefreshStations([cu |-> cu3, fetched |-> <<>>], status,
                                     new_lineup_data, stations, now)
            IN [cu |-> r.cu, refresh_lineups |-> TRUE, fetched |-> r.fetched]
       ELSE [cu |-> cu1, refresh_lineups |-> FALSE, fetched |-> <<>>]

\* SDDB.upgrade_database_schema with upgrade_plan=None: the value returned
upgrade_database_schema(cu, current_schema_version) ==
    cu.t.user_version = current_schema_version

(***************************************************************************)
(* The remote guide service.  Its state is                                 *)
(*   remote.md5[<<station, day>>]  the day fingerprint it reports (or      *)
(*                                 NotListed), and                         *)
(*   remote.prog[programID]        the version of the program it serves.   *)
(* The content of a day is determined by its fingerprint.                  *)
(***************************************************************************)
MaxClock == 2
MaxRemoteChanges == 2

WatchSet == <<"10021", "10035">>
Days == << <<2015, 3, 2>>, <<2015, 3, 3>> >>
\* the service does not (yet, or no longer) list the day for the station
NotListed == "-"
DayFingerprints == {"F1", "F2", SENTINEL_MD5, NotListed}

EP1a == <<"E", "P", "0", "0", "0", "0", "0", "0", "0", "1", "0", "0", "0", "1">>
EP1b == <<"E", "P", "0", "0", "0", "0", "0", "0", "0", "1", "0", "0", "0", "2">>
MV2 == <<"M", "V", "0", "0", "0", "0", "0", "0", "0", "2", "0", "0", "0", "0">>
ProgramIDs == {EP1a, EP1b, MV2}
ProgramVersions == {1, 2}

ProgramMd5(program_id, version) ==
    IF version = 1 THEN "G1" ELSE "G2"

\* the program record the service answers with
ProgramPayload(program_id, version) ==
    IF program_id = MV2
    THEN IF version = 1
         THEN [programID |-> MV2, md5 |-> "G1",
               titles |-> << << <<"title120", "Metropolis">> >> >>,
               descriptions |-> << <<"description100",
                                      << [descriptionLanguage |-> <<"de">>,
                                          description |-> "Stummfilm"] >> >> >>,
               genres |-> <<"Science fiction", "Drama">>,
               crew |-> << [name |-> "Fritz Lang", role |-> "Director"] >>,
               entityType |-> "Movie", showType |-> "Feature Film",
               movie |-> [year |-> "1927"]]
         ELSE [programID |-> MV2, md5 |-> "G2",
               titles |-> << << <<"title120", "Metropolis (restored)">> >> >>,
               entityType |-> "Movie"]
    ELSE IF version = 1
         THEN [programID |-> program_id, md5 |-> "G1",
               titles |-> << << <<"title120", "'Allo 'Allo!">> >> >>,
               descriptions |-> << <<"description100",
                                      << [descriptionLanguage |-> <<"en", "gb">>,
                                          description |-> "Rene hides a painting."] >> >>,
                                   <<"description1000",
                                      << [descriptionLanguage |-> <<"en", "gb">>,
                                          description |-> "Rene hides a painting in a sausage."] >> >> >>,
               genres |-> <<"Sitcom">>,
               episodeTitle150 |-> "Pilot",
               metadata |-> << [Gracenote |-> [season |-> 1, episode |-> 1]] >>,
               cast |-> << [name |-> "Gorden Kaye", characterName |-> "Rene"],
                           [name |-> "Carmen Silvera"] >>,
               entityType |-> "Episode", showType |-> "Series"]
         ELSE [programID |-> program_id, md5 |-> "G2",
               titles |-> << << <<"title120", "'Allo 'Allo!">> >> >>,
               episodeTitle150 |-> "Pilot (repeat)",
               entityType |-> "Episode", showType |-> "Series"]

\* the artwork the service lists for a shortened program id
ArtworkPayload(short) ==
    IF short = shorten_program_id(EP1a)
    THEN [programID |-> short,
          data |-> Some(<< [uri |-> <<"", "assets/p1_cast.jpg">>, category |-> "Cast Ensemble",
                            size |-> "Lg", width |-> 1080, height |-> 1440],
                           [uri |-> <<"https:", "//img.example/p1_iconic.jpg">>,
                            category |-> "Iconic", size |-> "Md", width |-> 540,
                            height |-> 720, caption |-> [content |-> "Cafe Rene"]],
                           [uri |-> <<"", "assets/p1_nocat.jpg">>, width |-> 100] >>)]
    ELSE [programID |-> short, data |-> None]

\* entries of a day: the programs, the embedded fingerprint being that of the
\* version the service currently serves
ScheduleLineup(station_id, day, fingerprint) ==
    IF fingerprint = "F1"
    THEN << [programID |-> EP1a, hour |-> 20], [programID |-> EP1b, hour |-> 21] >>
    ELSE << [programID |-> EP1a, hour |-> 18], [programID |-> MV2, hour |-> 19] >>

SchedulePrograms(rem, station_id, day) ==
    LET lineup == ScheduleLineup(station_id, day, rem.md5[<<station_id, day>>])
    IN [i \in 1..Len(lineup) |->
           IF lineup[i].programID = MV2
           THEN [programID |-> MV2,
                 airDateTime |-> <<day[1], day[2], day[3], lineup[i].hour, 0, 0>>,
                 duration |-> 5400,
                 md5 |-> ProgramMd5(MV2, rem.prog[MV2])]
           ELSE [programID |-> lineup[i].programID,
                 airDateTime |-> <<day[1], day[2], day[3], lineup[i].hour, 0, 0>>,
                 duration |-> 1800,
                 md5 |-> ProgramMd5(lineup[i].programID, rem.prog[lineup[i].programID]),
                 audioProperties |-> <<"stereo", "cc">>]]

\* lastModified the service reports with a day fingerprint
DayLastModified(day, fingerprint) ==
    IF fingerprint = "F1" THEN <<2015, 3, 1, 15, 54, 58>> ELSE <<2015, 3, 2, 9, 0, 0>>

\* SD_API.get_schedules_md5_max: station -> day -> {code, message, lastModified, md5}
ListedDays(rem, station_id) ==
    SelectSeq(Days, LAMBDA d : rem.md5[<<station_id, d>>] # NotListed)

get_schedules_md5_max(rem, station_ids) ==
    [i \in 1..Len(station_ids) |->
        <<station_ids[i],
          [j \in 1..Len(ListedDays(rem, station_ids[i])) |->
              LET day == ListedDays(rem, station_ids[i])[j]
              IN <<day,
                   [code |-> 0, message |-> "OK",
                    lastModified |-> DayLastModified(day, rem.md5[<<station_ids[i], day>>]),
                    md5 |-> rem.md5[<<station_ids[i], day>>]]>>]>>]

\* the schedules asked for one station: one item per requested day
ScheduleItems(rem, station_id, days) ==
    [j \in 1..Len(days) |->
        [stationID |-> station_id,
         programs |-> SchedulePrograms(rem, station_id, days[j]),
         metadata |-> [startDate |-> days[j], md5 |-> rem.md5[<<station_id, days[j]>>]]]]

\* SD_API.get_schedules for a dict station -> list of days; None is the failed
\* assertion on the request size
RECURSIVE ScheduleItemsAll(_, _)
ScheduleItemsAll(rem, station_ids) ==
    IF Len(station_ids) = 0 THEN <<>>
    ELSE ScheduleItems(rem, Head(station_ids)[1], Head(station_ids)[2])
            \o ScheduleItemsAll(rem, Tail(station_ids))

get_schedules(rem, station_ids) ==
    IF Len(station_ids) <= 500 THEN Some(ScheduleItemsAll(rem, station_ids)) ELSE None

\* SD_API.get_programs_max; None is the failed assertion on the request size
get_programs_max(rem, program_ids) ==
    IF Len(program_ids) <= MAX_PROGRAM_IDS
    THEN Some([i \in 1..Len(program_ids) |->
                  ProgramPayload(program_ids[i], rem.prog[program_ids[i]])])
    ELSE None

\* SD_API.get_program_artwork_max
get_program_artwork_max(short_program_ids) ==
    [i \in 1..Len(short_program_ids) |-> ArtworkPayload(short_program_ids[i])]

(***************************************************************************)
(* The run (__main__ of sdjsongrab.py), from the commit that ends the      *)
(* lineup stage to the final commit.                                       *)
(***************************************************************************)
VARIABLES
    db,         \* the tables as the running process sees them
    committed,  \* the tables as last committed
    remote,     \* state of the guide service
    clock,      \* int(time.time())
    pc,         \* position of the process
    run,        \* local variables of the run
    writes,     \* write statements executed since the run (or call) began
    hist,       \* history: remote changes so far, remote state at the last final commit
    cfg,        \* the configuration file sdjson.ini (SD_Config)
    exitstatus  \* exit status of the process, None while it runs or before the first run

\* the configuration as far as the run reads it: CONFIG_DEFAULTS with the
\* access data that sdconf.py has stored (no retry wait, a configured user)
ConfiguredCfg == [waituntil |-> 0, username |-> "user"]

vars == <<db, committed, remote, clock, pc, run, writes, hist, cfg, exitstatus>>

NoRun == [chunks |-> <<>>, dat |-> None, open_schedules |-> <<>>,
          count_invalid_schedules |-> 0, schedules |-> None, open_programs |-> <<>>,
          artwork_info |-> None]

InitRemote == [md5 |-> [k \in Range(WatchSet) \X Range(Days) |->
                           IF k = <<WatchSet[2], Days[2]>> THEN NotListed ELSE "F1"],
               prog |-> [p \in ProgramIDs |-> 1]]

Init ==
    /\ db = EmptyTables
    /\ committed = EmptyTables
    /\ remote = InitRemote
    /\ clock = 0
    /\ pc = "idle"
    /\ run = NoRun
    /\ writes = <<>>
    /\ hist = [changes |-> 0, remoteAtCommit |-> None]
    /\ cfg = ConfiguredCfg
    /\ exitstatus = None

\* the service changes the fingerprint of a day or the version of a program
RemoteChange ==
    /\ pc = "idle"
    /\ hist.changes < MaxRemoteChanges
    /\ \/ \E k \in DOMAIN remote.md5, f \in DayFingerprints :
             /\ remote.md5[k] # f
             /\ remote' = [remote EXCEPT !.md5[k] = f]
       \/ \E p \in ProgramIDs, v \in ProgramVersions :
             /\ remote.prog[p] # v
             /\ remote' = [remote EXCEPT !.prog[p] = v]
    /\ hist' = [hist EXCEPT !.changes = @ + 1]
    /\ UNCHANGED <<db, committed, clock, pc, run, writes, cfg, exitstatus>>

\* position after the work on the current chunk of stations
AfterChunk(chunks) == IF Len(chunks) <= 1 THEN "commit" ELSE "stageB"

\* the process starts; the watch set is read and chunked
StartRun ==
    /\ pc = "idle"
    /\ clock < MaxClock
    /\ clock' = clock + 1
    /\ run' = [NoRun EXCEPT !.chunks = chunker(WatchSet, MAX_STATIONS_IDS)]
    /\ pc' = IF WatchSet # <<>> THEN "stageB" ELSE "commit"
    /\ writes' = <<>>
    /\ exitstatus' = None
    /\ UNCHANGED <<db, committed, remote, hist, cfg>>

\* get_schedules_md5_max and store_schedule_index for the current chunk, and
\* the report that follows; the report of invalid schedules calls the
\* non-existing method cfg.printNad_log and raises
StageB ==
    /\ pc = "stageB"
    /\ LET dat == get_schedules_md5_max(remote, Head(run.chunks))
           r == store_schedule_index(Cursor(db), dat)
       IN /\ db' = r.cu.t
          /\ writes' = writes \o r.cu.w
          /\ run' = [run EXCEPT !.dat = Some(dat),
                                !.open_schedules = r.new_schedules,
                                !.count_invalid_schedules = r.count_invalid_schedules,
                                !.schedules = None,
                                !.open_programs = <<>>,
                                !.artwork_info = None,
                                !.chunks = IF r.cu.exc \/ r.count_invalid_schedules # 0
                                              \/ Len(r.new_schedules) > 0
                                           THEN @ ELSE Tail(@)]
          /\ pc' = IF r.cu.exc \/ r.count_invalid_schedules # 0 THEN "raised"
                   ELSE IF Len(r.new_schedules) > 0 THEN "stageC"
                   ELSE AfterChunk(run.chunks)
    /\ UNCHANGED <<committed, remote, clock, hist, cfg, exitstatus>>

\* get_schedules and store_schedules for the dirty days of the chunk
StageC ==
    /\ pc = "stageC"
    /\ LET dat == get_schedules(remote, run.open_schedules)
           r == IF dat = None THEN [cu |-> Raise(Cursor(db)), update_programs |-> <<>>]
                ELSE store_schedules(Cursor(db), dat[1])
       IN /\ db' = r.cu.t
          /\ writes' = writes \o r.cu.w
          /\ run' = [run EXCEPT !.schedules = dat,
                                !.open_programs = r.update_programs,
                                !.chunks = IF r.cu.exc \/ Len(r.update_programs) > 0
                                           THEN @ ELSE Tail(@)]
          /\ pc' = IF r.cu.exc THEN "raised"
                   ELSE IF Len(r.update_programs) > 0 THEN "stageD"
                   ELSE AfterChunk(run.chunks)
    /\ UNCHANGED <<committed, remote, clock, hist, cfg, exitstatus>>

\* artwork metadata of all shortened ids, fetched chunk by chunk
RECURSIVE FetchArtwork(_)
FetchArtwork(chunks) ==
    IF Len(chunks) = 0 THEN <<>>
    ELSE get_program_artwork_max(Head(chunks)) \o FetchArtwork(Tail(chunks))

\* get_programs_max and store_programs, chunk by chunk
RECURSIVE FetchAndStorePrograms(_, _, _, _, _)
FetchAndStorePrograms(cu, rem, chunks, artwork_info, now) ==
    IF Len(chunks) = 0 \/ cu.exc THEN cu
    ELSE LET dat == get_programs_max(rem, Head(chunks))
         IN IF dat = None THEN Raise(cu)
            ELSE FetchAndStorePrograms(store_programs(cu, dat[1], artwork_info, now),
                                       rem, Tail(chunks), artwork_info, now)

\* artwork and program metadata for the open programs of the chunk
StageD ==
    /\ pc = "stageD"
    /\ LET open_programs_shorts == calc_short_program_ids(run.open_programs)
           all_artwork_dat == FetchArtwork(chunker(open_programs_shorts, MAX_ARTWORK_IDS))
           art == proc_program_artwork_info(all_artwork_dat)
           cu == IF art.exc THEN Raise(Cursor(db))
                 ELSE FetchAndStorePrograms(Cursor(db), remote,
                          chunker(run.open_programs, MAX_PROGRAM_IDS), Some(art.res), clock)
       IN /\ db' = cu.t
          /\ writes' = writes \o cu.w
          /\ run' = [run EXCEPT !.artwork_info = Some(art.res),
                                !.chunks = IF cu.exc THEN @ ELSE Tail(@)]
          /\ pc' = IF cu.exc THEN "raised" ELSE AfterChunk(run.chunks)
    /\ UNCHANGED <<committed, remote, clock, hist, cfg, exitstatus>>

\* a remote call of the stage fails (transport error): the exception leaves
\* the stage before its handler has written anything
TransportError ==
    /\ pc \in {"stageB", "stageC", "stageD"}
    /\ pc' = "raised"
    /\ UNCHANGED <<db, committed, remote, clock, run, writes, hist, cfg, exitstatus>>

\* db.commit() at the end of the run
Commit ==
    /\ pc = "commit"
    /\ committed' = db
    /\ hist' = [hist EXCEPT !.remoteAtCommit = Some(remote)]
    /\ pc' = "idle"
    /\ exitstatus' = Some(0)
    /\ UNCHANGED <<db, remote, clock, run, writes, cfg>>

\* a catch-all after which the statements of the failed run stay in the file
Catchall_keeps ==
    /\ pc = "raised"
    /\ db' = db
    /\ pc' = "idle"
    /\ exitstatus' = Some(100)
    /\ UNCHANGED <<committed, remote, clock, run, writes, hist, cfg>>

\* a catch-all that commits what the failed run has written
Catchall_commits ==
    /\ pc = "raised"
    /\ committed' = db
    /\ pc' = "idle"
    /\ exitstatus' = Some(100)
    /\ UNCHANGED <<db, remote, clock, run, writes, hist, cfg>>

\* except Exception: ... sys.exit(100); the connection is dropped without a
\* commit, the uncommitted statements are lost
Catchall ==
    /\ pc = "raised"
    /\ db' = committed
    /\ pc' = "idle"
    /\ exitstatus' = Some(100)
    /\ UNCHANGED <<committed, remote, clock, run, writes, hist, cfg>>

Next ==
    \/ RemoteChange
    \/ StartRun
    \/ StageB
    \/ StageC
    \/ StageD
    \/ TransportError
    \/ Commit
    \/ Catchall

Spec == Init /\ [][Next]_vars

(***************************************************************************)
(* Properties of the schedule stages                                       *)
(***************************************************************************)
StationDays == Range(WatchSet) \X Range(Days)

InRun == pc \in {"stageB", "stageC", "stageD", "commit", "raised"}

\* the scheduleindex rows of a (station, day)
IndexRows(tables, station_id, day) ==
    {r \in Range(tables.scheduleindex) :
        r["station_id"] = Some(station_id) /\ r["startdate"] = Some(ToOrdinal(day[1], day[2], day[3]))}

\* the schedule rows that reference a scheduleindex id, in rowid order
OwnedBy(tables, id) == SelectSeq(tables.schedule, LAMBDA e : e["scheduleindex"] = id)

\* the schedule rows of a (station, day), in rowid order
OwnedEntries(tables, station_id, day) ==
    SelectSeq(tables.schedule,
              LAMBDA e : \E r \in IndexRows(tables, station_id, day) : e["scheduleindex"] = r["id"])

\* the fingerprint a fingerprint response carries for a (station, day)
Fetched(dat, station_id, day) ==
    DictHas(dat, station_id) /\ DictHas(DictGet(dat, station_id), day)

FetchedMd5(dat, station_id, day) == DictGet(DictGet(dat, station_id), day).md5

\* the (station, day) pairs of a dirty dict, and their number of occurrences
DirtyPairs(new_schedules) ==
    {k \in StationDays :
        DictHas(new_schedules, k[1]) /\ k[2] \in Range(DictGet(new_schedules, k[1]))}

DirtyCount(new_schedules, k) ==
    IF DictHas(new_schedules, k[1])
    THEN Cardinality({i \in 1..Len(DictGet(new_schedules, k[1])) :
                         DictGet(new_schedules, k[1])[i] = k[2]})
    ELSE 0

\* C1: if a full run has completed and committed and the remote state is as
\* it was at that commit, a further run writes nothing: no statement is
\* executed and the tables equal the committed ones, up to its final commit.
C1_Idempotence ==
    (InRun /\ hist.remoteAtCommit = Some(remote)) => (writes = <<>> /\ db = committed)

C1_Witness ==
    /\ pc = "commit"
    /\ hist.remoteAtCommit = Some(remote)
    /\ Len(committed.scheduleindex) > 1
    /\ Len(committed.schedule) > 0
    /\ Len(committed.programdata) > 0

\* the <<program, airtime>> of stored entries, and of the programs of a fetched item
StoredEntryKeys(rows) == [i \in 1..Len(rows) |-> <<rows[i]["program_id"], rows[i]["airtime"]>>]

FetchedEntryKeys(programs) ==
    [i \in 1..Len(programs) |->
        <<Some(programs[i].programID), sdtime_to_unixtime(programs[i].airDateTime)>>]

\* the programs the run's schedule fetch returned for a (station, day)
FetchedPrograms(schedules, station_id, day) ==
    LET hits == {i \in 1..Len(schedules) : /\ schedules[i].stationID = station_id
                                           /\ schedules[i].metadata.startDate = day}
    IN IF hits = {} THEN <<>> ELSE schedules[CHOOSE i \in hits : TRUE].programs

\* the day has a committed fingerprint and the run has stored a different one
FingerprintReplaced(station_id, day) ==
    \E r0 \in IndexRows(committed, station_id, day), r1 \in IndexRows(db, station_id, day) :
        r0["md5"] # r1["md5"]

\* C2: when a run reaches its final commit, every (station, day) whose stored
\* fingerprint differs from the one of the last completed run owns exactly
\* the entries the run's schedule fetch returned for it, in order, each once.
C2_CascadeIntegrity ==
    pc = "commit" =>
        \A k \in StationDays :
            FingerprintReplaced(k[1], k[2]) =>
                /\ run.schedules # None
                /\ StoredEntryKeys(OwnedEntries(db, k[1], k[2]))
                     = FetchedEntryKeys(FetchedPrograms(run.schedules[1], k[1], k[2]))

C2_Witness ==
    /\ pc = "commit"
    /\ \E k \in StationDays :
          /\ FingerprintReplaced(k[1], k[2])
          /\ Len(OwnedEntries(committed, k[1], k[2])) > 0
          /\ Len(OwnedEntries(db, k[1], k[2])) > 0

\* the entry is one of the entries the service lists for the day of the
\* index row under the fingerprint the row holds
EntryFetchedUnder(e, r) ==
    \E d \in Range(Days) :
        /\ r["startdate"] = date_to_int(d)
        /\ r["md5"] # None
        /\ \E p \in Range(ScheduleLineup(r["station_id"][1], d, r["md5"][1])) :
              /\ e["program_id"] = Some(p.programID)
              /\ e["airtime"] = sdtime_to_unixtime(<<d[1], d[2], d[3], p.hour, 0, 0>>)

CascadeHolds(tables) ==
    \A e \in Range(tables.schedule) :
        \E r \in Range(tables.scheduleindex) :
            /\ e["scheduleindex"] = r["id"]
            /\ e["station_id"] = r["station_id"]
            /\ EntryFetchedUnder(e, r)

IsIndexUpdate(w) == w[1] = "UPDATE" /\ w[2] = "scheduleindex"

\* in the statements of the run, the update of a day's fingerprint directly
\* follows the delete of the day's entries, and no entry of the day is
\* inserted before it
DeleteBeforeUpdate(log) ==
    \A i \in 1..Len(log) :
        IsIndexUpdate(log[i]) =>
            /\ i > 1
            /\ log[i-1] = <<"DELETE", "schedule", "scheduleindex", log[i][4]>>
            /\ \A j \in 1..(i-1) :
                  ~(log[j][1] = "INSERT" /\ log[j][2] = "schedule"
                      /\ log[j][3]["scheduleindex"] = log[i][4])

\* C3: in every reachable state, also in and after runs that abort, every
\* schedule entry is owned by an index row and is an entry of the fetch made
\* under the fingerprint that row holds; a changed fingerprint is written
\* right after the delete of the owned entries and before any new entry.
C3_CascadeInvariant ==
    /\ CascadeHolds(db)
    /\ CascadeHolds(committed)
    /\ DeleteBeforeUpdate(writes)

C3_Witness ==
    /\ pc = "stageC"
    /\ \E i \in 1..Len(writes) : IsIndexUpdate(writes[i])
    /\ Len(db.schedule) > 0
    /\ hist.remoteAtCommit # None

\* the pairs store_schedule_index has to report for a response, given the
\* tables it starts from
ExpectedDirty(tables, dat) ==
    {k \in StationDays :
        /\ Fetched(dat, k[1], k[2])
        /\ FetchedMd5(dat, k[1], k[2]) # SENTINEL_MD5
        /\ \/ IndexRows(tables, k[1], k[2]) = {}
           \/ \E r \in IndexRows(tables, k[1], k[2]) :
                 r["md5"] # Some(FetchedMd5(dat, k[1], k[2]))}

\* C4: store_schedule_index reports as dirty exactly the pairs whose fetched
\* fingerprint is not the sentinel and that have no stored row or a stored
\* row with another fingerprint, each once; afterwards each dirty pair has
\* one row, holding the fetched fingerprint.
C4_DirtyExact ==
    [][StageB =>
        /\ DirtyPairs(run'.open_schedules) = ExpectedDirty(db, run'.dat[1])
        /\ \A k \in DirtyPairs(run'.open_schedules) :
              /\ DirtyCount(run'.open_schedules, k) = 1
              /\ Cardinality(IndexRows(db', k[1], k[2])) = 1
              /\ \A r \in IndexRows(db', k[1], k[2]) :
                    r["md5"] = Some(FetchedMd5(run'.dat[1], k[1], k[2]))]_vars

C4_Witness ==
    /\ pc = "stageC"
    /\ \E k \in DirtyPairs(run.open_schedules) : IndexRows(committed, k[1], k[2]) = {}
    /\ \E k \in DirtyPairs(run.open_schedules) : FingerprintReplaced(k[1], k[2])
    /\ \E k \in StationDays : k \notin DirtyPairs(run.open_schedules)

\* the fetched fingerprint of the pair equals the stored one
Unchanged(tables, dat, k) ==
    /\ Fetched(dat, k[1], k[2])
    /\ IndexRows(tables, k[1], k[2]) # {}
    /\ \A r \in IndexRows(tables, k[1], k[2]) : r["md5"] = Some(FetchedMd5(dat, k[1], k[2]))

\* the statement writes the index row or the entries of one of the rows
Touches(w, rows) ==
    \E r \in rows :
        \/ w[1] = "UPDATE" /\ w[2] = "scheduleindex" /\ w[4] = r["id"]
        \/ w[1] = "DELETE" /\ w[2] = "schedule" /\ w[4] = r["id"]
        \/ w[1] = "INSERT" /\ w[2] = "scheduleindex"
              /\ w[3]["station_id"] = r["station_id"] /\ w[3]["startdate"] = r["startdate"]
        \/ w[1] = "INSERT" /\ w[2] = "schedule" /\ w[3]["scheduleindex"] = r["id"]

\* C5: for a (station, day) whose fetched fingerprint equals the stored one,
\* store_schedule_index executes no statement on the index row or its
\* entries, leaves both as they are and does not report the day as dirty.
C5_UnchangedDayUntouched ==
    [][StageB =>
        \A k \in StationDays :
            Unchanged(db, run'.dat[1], k) =>
                /\ IndexRows(db', k[1], k[2]) = IndexRows(db, k[1], k[2])
                /\ OwnedEntries(db', k[1], k[2]) = OwnedEntries(db, k[1], k[2])
                /\ k \notin DirtyPairs(run'.open_schedules)
                /\ \A i \in (Len(writes)+1)..Len(writes') :
                      ~Touches(writes'[i], IndexRows(db, k[1], k[2]))]_vars

C5_Witness ==
    /\ pc = "stageC"
    /\ run.dat # None
    /\ \E k \in StationDays :
          /\ Unchanged(committed, run.dat[1], k)
          /\ Len(OwnedEntries(db, k[1], k[2])) > 0
    /\ \E i \in 1..Len(writes) : IsIndexUpdate(writes[i])

SentinelPairs(dat) ==
    {k \in StationDays : Fetched(dat, k[1], k[2]) /\ FetchedMd5(dat, k[1], k[2]) = SENTINEL_MD5}

\* C6 as stated: after Stage B no scheduleindex row exists for a (station,
\* day) reported with the sentinel, the pair is not dirty, and the counter
\* is the number of such pairs.
C6_NoRowForSentinelDay ==
    (pc \in {"stageC", "stageD", "commit", "raised"} /\ run.dat # None) =>
        /\ \A k \in SentinelPairs(run.dat[1]) :
              /\ IndexRows(db, k[1], k[2]) = {}
              /\ k \notin DirtyPairs(run.open_schedules)
        /\ run.count_invalid_schedules = Cardinality(SentinelPairs(run.dat[1]))

\* C6 amended: store_schedule_index writes nothing for a (station, day)
\* reported with the sentinel: no row ever holds the sentinel fingerprint,
\* the rows and entries the pair had before (under an earlier fingerprint)
\* are left as they are, the pair is not dirty, and the counter is the
\* number of such pairs.
C6_SentinelExclusion ==
    [][StageB =>
        /\ \A r \in Range(db'.scheduleindex) : r["md5"] # Some(SENTINEL_MD5)
        /\ \A k \in SentinelPairs(run'.dat[1]) :
              /\ IndexRows(db', k[1], k[2]) = IndexRows(db, k[1], k[2])
              /\ OwnedEntries(db', k[1], k[2]) = OwnedEntries(db, k[1], k[2])
              /\ k \notin DirtyPairs(run'.open_schedules)
        /\ run'.count_invalid_schedules = Cardinality(SentinelPairs(run'.dat[1]))]_vars

C6_Witness ==
    /\ pc = "raised"
    /\ run.dat # None
    /\ Cardinality(SentinelPairs(run.dat[1])) = 2
    /\ run.count_invalid_schedules = 2
    /\ \E k \in SentinelPairs(run.dat[1]) :
          /\ IndexRows(db, k[1], k[2]) # {}
          /\ Len(OwnedEntries(db, k[1], k[2])) > 0

(***************************************************************************)
(* store_programs on its own: SpecPrograms applies it to batches of        *)
(* program records of distinct programs (the open-programs worklist holds  *)
(* every identifier once), with and without artwork, at passing times.     *)
(***************************************************************************)
ProgramBatches ==
    {<<ProgramPayload(p, v)>> : p \in {EP1a, MV2}, v \in ProgramVersions}
      \cup {<<ProgramPayload(EP1a, v), ProgramPayload(MV2, v)>> : v \in ProgramVersions}

ArtworkInfos ==
    {Some(<<>>),
     Some(proc_program_artwork_info(
              get_program_artwork_max(calc_short_program_ids(<<EP1a, MV2>>))).res)}

InitPrograms ==
    /\ db = EmptyTables
    /\ committed = EmptyTables
    /\ remote = InitRemote
    /\ clock = 0
    /\ pc = "programs"
    /\ run = [data |-> <<>>, artwork_info |-> None]
    /\ writes = <<>>
    /\ hist = [changes |-> 0, remoteAtCommit |-> None]
    /\ cfg = ConfiguredCfg
    /\ exitstatus = None

StoreProgramsCall ==
    /\ pc = "programs"
    /\ \E data \in ProgramBatches, artwork_info \in ArtworkInfos :
          LET cu == store_programs(Cursor(db), data, artwork_info, clock)
          IN /\ run' = [data |-> data, artwork_info |-> artwork_info]
             /\ db' = cu.t
             /\ writes' = cu.w
    /\ UNCHANGED <<committed, remote, clock, pc, hist, cfg, exitstatus>>

Tick ==
    /\ pc = "programs"
    /\ clock < MaxClock
    /\ clock' = clock + 1
    /\ UNCHANGED <<db, committed, remote, pc, run, writes, hist, cfg, exitstatus>>

NextPrograms ==
    \/ StoreProgramsCall
    \/ Tick

SpecPrograms == InitPrograms /\ [][NextPrograms]_vars

ProgramRows(tables, program_id) ==
    {r \in Range(tables.programdata) : r["program_id"] = Some(program_id)}

\* the statement writes the programdata row of the program
WritesProgram(w, program_id) ==
    /\ w[2] = "programdata"
    /\ \/ w[1] = "INSERT" /\ w[3]["program_id"] = Some(program_id)
       \/ w[1] = "UPDATE" /\ w[4] = Some(program_id)

\* C7: when store_programs gets a record of program P whose fingerprint
\* equals the stored one, it executes no statement on P's row and every
\* field of the row, the artwork pointer and the last-access time included,
\* is as before.
C7_ProgramGateUnchanged ==
    [][StoreProgramsCall =>
        \A i \in 1..Len(run'.data) :
            \A r \in ProgramRows(db, run'.data[i].programID) :
                r["md5"] = Some(run'.data[i].md5) =>
                    /\ ProgramRows(db', run'.data[i].programID) = {r}
                    /\ \A j \in 1..Len(writes') :
                          ~WritesProgram(writes'[j], run'.data[i].programID)]_vars

\* a call has met a stored record with the same fingerprint at a later time,
\* with artwork on offer that the record does not have
C7_Witness ==
    /\ pc = "programs"
    /\ \E i \in 1..Len(run.data) :
          \E r \in ProgramRows(db, run.data[i].programID) :
              /\ r["md5"] = Some(run.data[i].md5)
              /\ r["last_access"] # Some(clock)
              /\ r["artwork_uri"] = None
              /\ calc_program_artwork_info(run.data[i].programID, run.artwork_info[1]) # None

\* the row that holds what the record and the artwork resolved for it carry,
\* and nothing else
RowOfPayload(item, artwork_info, now) ==
    [c \in Columns("programdata") |-> QueryValue(ProgramQuery(item, artwork_info, now), c)]

DescriptiveFields ==
    {"title120", "episodetitle158", "description100", "description1000", "genres100",
     "cast1000", "crew1000", "entity_type", "show_type", "movie_year", "artwork_uri"}

\* C8: when store_programs gets a record of program P whose fingerprint
\* differs from the stored one, afterwards the stored fingerprint is the new
\* one and every descriptive field holds what the new record carries, a
\* field the new record does not carry being empty.
C8_ProgramGateChanged ==
    [][StoreProgramsCall =>
        \A i \in 1..Len(run'.data) :
            \A r \in ProgramRows(db, run'.data[i].programID) :
                r["md5"] # Some(run'.data[i].md5) =>
                    \A r1 \in ProgramRows(db', run'.data[i].programID) :
                        /\ r1["md5"] = Some(run'.data[i].md5)
                        /\ \A c \in DescriptiveFields :
                              r1[c] = RowOfPayload(run'.data[i], run'.artwork_info, clock)[c]]_vars

(***************************************************************************)
(* The merge engine on its own: SpecMerge applies insert_or_update to the  *)
(* lineups table, keyed by lineupname, with requests shaped like those of  *)
(* store_lineups_from_status (compare field modified),                     *)
(* store_lineups_from_user_lineups (no compare field) and partial ones.    *)
(* A request is the sequence of <<field, value>> given to add, in order.   *)
(***************************************************************************)
LineupNames == {"USA-NY12345-X", "GBR-0001-D"}
LineupTitles == {"Cable", "Freesat"}
LineupStamps == {1429132272, 1546349180}

MergeRequests ==
    {<< <<"lineupname", n>>, <<"name", t>>, <<"modified", m>> >> :
        n \in LineupNames, t \in LineupTitles, m \in LineupStamps}
      \cup {<< <<"lineupname", "GBR-0001-D">>, <<"name", "Freesat">>,
               <<"modified", 1429132272>>, <<"uri", "/20141201/lineups/GBR-0001-D">> >>}
      \cup {<< <<"modified", 1546349180>>, <<"lineupname", n>> >> : n \in LineupNames}
      \cup {<< <<"lineupname", n>>, <<"name", "Cable">> >> : n \in LineupNames}

CompareFields == {None, Some("modified")}

RECURSIVE BuildQuery(_, _)
BuildQuery(qb, request) ==
    IF Len(request) = 0 THEN qb
    ELSE BuildQuery(add(qb, Head(request)[1], Some(Head(request)[2]), FALSE), Tail(request))

InitMerge ==
    /\ db = EmptyTables
    /\ committed = EmptyTables
    /\ remote = InitRemote
    /\ clock = 0
    /\ pc = "merge"
    /\ run = [request |-> <<>>, compare |-> None, res |-> FALSE, exc |-> FALSE]
    /\ writes = <<>>
    /\ hist = [changes |-> 0, remoteAtCommit |-> None]
    /\ cfg = ConfiguredCfg
    /\ exitstatus = None

MergeCall ==
    /\ pc = "merge"
    /\ \E request \in MergeRequests, compare \in CompareFields :
          LET r == insert_or_update(Cursor(db), BuildQuery(Query_builder("lineups"), request),
                                    "lineupname", compare)
          IN /\ run' = [request |-> request, compare |-> compare,
                        res |-> r.res, exc |-> r.cu.exc]
             /\ db' = r.cu.t
             /\ writes' = r.cu.w
    /\ UNCHANGED <<committed, remote, clock, pc, hist, cfg, exitstatus>>

NextMerge == MergeCall

SpecMerge == InitMerge /\ [][NextMerge]_vars

\* the value a request gives for a field, None if it does not name the field
RequestValue(request, field) ==
    IF \E i \in 1..Len(request) : request[i][1] = field
    THEN Some(request[CHOOSE i \in 1..Len(request) : request[i][1] = field][2])
    ELSE None

RequestFields(request) == {request[i][1] : i \in 1..Len(request)}

\* positions of the rows holding the identity value of the request
Holders(rows, request) ==
    {i \in 1..Len(rows) : rows[i]["lineupname"] = RequestValue(request, "lineupname")}

\* a request that insert_or_update accepts: the compare field is one of its fields
Accepted(request, compare) == compare = None \/ compare[1] \in RequestFields(request)

\* a row with the identity value exists and holds the compare value of the request
SkipCase(rows, request, compare) ==
    /\ compare # None
    /\ Accepted(request, compare)
    /\ \E i \in Holders(rows, request) : rows[i][compare[1]] = RequestValue(request, compare[1])

\* C9: every step of SpecMerge is a call of insert_or_update, described by
\* run'.  A call with a compare field, on a table where a row has the
\* identity value and holds the same compare value, executes no statement,
\* leaves the table as it is and returns False.
C9_MergeSkip ==
    [][pc = "merge" =>
        (SkipCase(db.lineups, run'.request, run'.compare) =>
            /\ db' = db
            /\ writes' = <<>>
            /\ run'.res = FALSE
            /\ ~run'.exc)]_vars

\* a call was skipped although the request carries another name than the row
C9_Witness ==
    /\ pc = "merge"
    /\ SkipCase(db.lineups, run.request, run.compare)
    /\ run.res = FALSE
    /\ \E i \in Holders(db.lineups, run.request) :
          db.lineups[i]["name"] # RequestValue(run.request, "name")

\* the reference upsert: the rows after a written request
UpsertRows(rows, request) ==
    IF Holders(rows, request) = {}
    THEN Append(rows, [c \in Columns("lineups") |-> RequestValue(request, c)])
    ELSE [i \in 1..Len(rows) |->
             IF i \in Holders(rows, request)
             THEN [c \in Columns("lineups") |->
                      IF c \in RequestFields(request) THEN RequestValue(request, c)
                      ELSE rows[i][c]]
             ELSE rows[i]]

\* C10: an accepted request that is not in the skip case is written as the
\* reference upsert writes it: without a row of the identity value one row
\* with the supplied fields is added, otherwise the supplied fields of that
\* row are set; the call returns True, rows of other identity values and
\* other tables are as before.
C10_MergeWrite ==
    [][pc = "merge" =>
        ((Accepted(run'.request, run'.compare)
            /\ ~SkipCase(db.lineups, run'.request, run'.compare)) =>
            /\ db'.lineups = UpsertRows(db.lineups, run'.request)
            /\ db' = [db EXCEPT !.lineups = db'.lineups]
            /\ Len(writes') = 1
            /\ writes'[1][1] = (IF Holders(db.lineups, run'.request) = {}
                                THEN "INSERT" ELSE "UPDATE")
            /\ run'.res = TRUE
            /\ ~run'.exc)]_vars

\* a row was updated under a compare field, beside a row of another identity
C10_Witness ==
    /\ pc = "merge"
    /\ run.res = TRUE
    /\ run.compare # None
    /\ Len(writes) = 1
    /\ writes[1][1] = "UPDATE"
    /\ Len(db.lineups) = 2
    /\ \E i \in 1..2 : db.lineups[i]["uri"] # None

(***************************************************************************)
(* Building a request: SpecBuilder fills a Query_builder for the lineups   *)
(* table field by field with add and hands it to insert_or_update.  An     *)
(* exception raised by add leaves the caller; in the model the request is  *)
(* then marked raised and what the caller would have done next is the      *)
(* Submit of a raised request.                                             *)
(***************************************************************************)
BuilderFields == {"lineupname", "name"}
BuilderValues == {"USA-NY12345-X", "GBR-0001-D"}

NewRequest == [qb |-> Query_builder("lineups"), op |-> "new", field |-> "", value |-> None,
               override |-> FALSE, submitted |-> Query_builder("lineups")]

InitBuilder ==
    /\ db = EmptyTables
    /\ committed = EmptyTables
    /\ remote = InitRemote
    /\ clock = 0
    /\ pc = "builder"
    /\ run = NewRequest
    /\ writes = <<>>
    /\ hist = [changes |-> 0, remoteAtCommit |-> None]
    /\ cfg = ConfiguredCfg
    /\ exitstatus = None

\* qb.add(field, value, override) on a request that has not raised
AddField ==
    /\ pc = "builder"
    /\ ~run.qb.raised
    /\ \E field \in BuilderFields, value \in BuilderValues, override \in BOOLEAN :
          run' = [run EXCEPT !.qb = add(run.qb, field, Some(value), override),
                             !.op = "add", !.field = field, !.value = Some(value),
                             !.override = override]
    /\ UNCHANGED <<db, committed, remote, clock, pc, writes, hist, cfg, exitstatus>>

\* qb.insert_or_update(cursor, "lineupname"); the caller goes on with a new request
Submit ==
    /\ pc = "builder"
    /\ LET r == insert_or_update(Cursor(db), run.qb, "lineupname", None)
       IN /\ run' = [NewRequest EXCEPT !.op = "submit", !.submitted = run.qb]
          /\ db' = r.cu.t
          /\ writes' = r.cu.w
    /\ UNCHANGED <<committed, remote, clock, pc, hist, cfg, exitstatus>>

NextBuilder ==
    \/ AddField
    \/ Submit

SpecBuilder == InitBuilder /\ [][NextBuilder]_vars

\* number of positions of the request that hold the field
FieldCount(qb, field) == Cardinality({i \in 1..Len(qb.fields) : qb.fields[i] = field})

\* C11: every step of SpecBuilder is an add or a submit, described by run'.
\* An add of a field the request already holds, without override, raises
\* and leaves the fields and values of the request and the store as they
\* are; with override the field is held exactly once, with the new value,
\* and the other fields keep their values.  A request that has raised
\* reaches the store with no statement: its submit executes nothing.
C11_MergeRejection ==
    [][pc = "builder" =>
        /\ (run'.op = "add" /\ run'.field \in Range(run.qb.fields) /\ ~run'.override) =>
              /\ run'.qb.raised
              /\ run'.qb.fields = run.qb.fields
              /\ run'.qb.values = run.qb.values
              /\ db' = db
              /\ writes' = writes
        /\ (run'.op = "add" /\ run'.field \in Range(run.qb.fields) /\ run'.override) =>
              /\ ~run'.qb.raised
              /\ FieldCount(run'.qb, run'.field) = 1
              /\ QueryValue(run'.qb, run'.field) = run'.value
              /\ Len(run'.qb.fields) = Len(run.qb.fields)
              /\ \A f \in Range(run.qb.fields) \ {run'.field} :
                    QueryValue(run'.qb, f) = QueryValue(run.qb, f)
        /\ (run'.op = "submit" /\ run.qb.raised) =>
              /\ db' = db
              /\ writes' = <<>>]_vars

\* a request that raised on its second lineupname was submitted to a table
\* that holds the row of another lineup: nothing was executed
C11_Witness ==
    /\ pc = "builder"
    /\ run.op = "submit"
    /\ run.submitted.raised
    /\ Len(run.submitted.fields) = 2
    /\ Len(db.lineups) = 1
    /\ db.lineups[1]["lineupname"] # QueryValue(run.submitted, "lineupname")
    /\ writes = <<>>

(***************************************************************************)
(* The whole run: SpecRun follows __main__ of sdjsongrab.py from the       *)
(* start of the process, through the configuration, the token, the status  *)
(* and stage A, into the stages of Spec.  Between runs the lineups of the  *)
(* account change at the service and sdconf.py sets query flags.           *)
(*   remote.lineups[id]  0: not in the account, otherwise the version of   *)
(*                       the lineup, which fixes its stamp and stations    *)
(*   hist.atStart        the committed tables when the run started         *)
(*   hist.afterA         the tables committed after stage A of this run    *)
(***************************************************************************)
LineupIDs == <<"USA-NY12345-X", "GBR-0001-D">>
LineupVersions == {0, 1, 2}
UnknownStation == "99999"
OtherStation == "20454"

LineupUri(lineup_id) == "/20141201/lineups/" \o lineup_id

LineupModified(version) ==
    IF version = 1 THEN <<2015, 4, 15, 21, 11, 12>> ELSE <<2019, 1, 1, 22, 26, 20>>

\* a station as the service lists it
StationItem(station_id, name, withlogo) ==
    [type |-> "dict",
     value |-> IF withlogo
               THEN [stationID |-> station_id, name |-> name, broadcastLanguage |-> <<"en">>,
                     logo |-> [URL |-> "https://img.example/" \o station_id \o ".png",
                               width |-> 360, height |-> 270, md5 |-> "3d1ca1"]]
               ELSE [stationID |-> station_id, name |-> name,
                     broadcastLanguage |-> <<"en", "de">>]]

\* the station list the service answers for a lineup; the second version of
\* the first lineup drops a station and carries an item that is no dict
StationList(lineup_id, version) ==
    IF lineup_id = LineupIDs[1]
    THEN IF version = 1
         THEN [stations |-> <<StationItem(WatchSet[1], "WNBC", TRUE),
                              StationItem(WatchSet[2], "WABC", FALSE)>>]
         ELSE [stations |-> <<StationItem(WatchSet[2], "WABC HD", FALSE),
                              [type |-> "list", value |-> <<>>]>>]
    ELSE IF version = 1
         THEN [stations |-> <<StationItem(WatchSet[2], "WABC", FALSE),
                              StationItem(OtherStation, "BBC One", TRUE)>>]
         ELSE [stations |-> <<StationItem(OtherStation, "BBC One", TRUE)>>]

\* the lineups of the status object, in the order of the account
StatusLineups(rem) ==
    LET listed == SelectSeq(LineupIDs, LAMBDA l : rem.lineups[l] # 0)
    IN [i \in 1..Len(listed) |->
           [lineup |-> listed[i], modified |-> LineupModified(rem.lineups[listed[i]]),
            uri |-> LineupUri(listed[i]), name |-> "Lineup " \o listed[i]]]

StatusHealths == {"ok", "offline", "code", "expired"}

\* SD_API.get_status: the status object of an account in the given condition
get_status(rem, health) ==
    [code |-> IF health = "code" THEN 3000 ELSE 0,
     notifications |-> <<>>,
     systemStatus |-> <<[status |-> IF health = "offline" THEN "Offline" ELSE "Online",
                         message |-> "No known issues."]>>,
     account |-> [expires |-> IF health = "expired" THEN <<1970, 1, 1, 0, 0, 0>>
                              ELSE <<2030, 1, 9, 12, 18, 31>>],
     lineups |-> StatusLineups(rem)]

\* SD_API.get_lineup_stations for every uri of the account; the request for
\* lineup failing (None: none of them) is answered with None
get_lineup_stations(rem, failing) ==
    [uri \in {LineupUri(LineupIDs[i]) : i \in 1..Len(LineupIDs)} |->
        LET l == CHOOSE l \in Range(LineupIDs) : LineupUri(l) = uri
        IN IF failing = Some(l) THEN None ELSE Some(StationList(l, rem.lineups[l]))]

\* the local variables of the run
RunLocals == [chunks |-> <<>>, dat |-> None, open_schedules |-> <<>>,
              count_invalid_schedules |-> 0, schedules |-> None, open_programs |-> <<>>,
              artwork_info |-> None, status |-> None, lineups_refreshed |-> FALSE,
              unactive_query_stations |-> <<>>, fetched |-> <<>>, schema_ok |-> TRUE,
              query |-> None, token |-> None]

\* a database file whose PRAGMA user_version is not the one this code requires
\* (written by another release of the program)
OtherSchemaTables == [EmptyTables EXCEPT !.user_version = CURRENT_DATABASE_SCHEMA_VERSION + 1]

InitRun ==
    /\ db \in {EmptyTables, OtherSchemaTables}
    /\ committed = db
    /\ remote = [md5 |-> InitRemote.md5, prog |-> InitRemote.prog,
                 lineups |-> [l \in Range(LineupIDs) |-> IF l = LineupIDs[1] THEN 1 ELSE 0]]
    /\ clock = 0
    /\ pc = "idle"
    /\ run = RunLocals
    /\ writes = <<>>
    /\ hist = [changes |-> 0, remoteAtCommit |-> None, atStart |-> db,
               afterA |-> None]
    /\ cfg \in {ConfiguredCfg, [ConfiguredCfg EXCEPT !.waituntil = MaxClock],
                [ConfiguredCfg EXCEPT !.waituntil = 1],
                [ConfiguredCfg EXCEPT !.username = ""]}
    /\ exitstatus = None

\* a lineup is added to the account, removed from it, or changed
LineupChange ==
    /\ pc = "idle"
    /\ hist.changes < MaxRemoteChanges
    /\ \E l \in Range(LineupIDs), v \in LineupVersions :
          /\ remote.lineups[l] # v
          /\ remote' = [remote EXCEPT !.lineups[l] = v]
    /\ hist' = [hist EXCEPT !.changes = @ + 1]
    /\ UNCHANGED <<db, committed, clock, pc, run, writes, cfg, exitstatus>>

\* sdconf.py: db.set_query_station(new_id, do_query=doquery); db.commit()
SetQueryStation ==
    /\ pc = "idle"
    /\ hist.changes < MaxRemoteChanges
    /\ \E station_id \in Range(WatchSet) \cup {UnknownStation}, do_query \in BOOLEAN :
          LET r == set_query_station(Cursor(db), station_id, do_query)
          IN /\ run' = [RunLocals EXCEPT !.query = Some([station_id |-> station_id,
                                                         do_query |-> do_query,
                                                         res |-> r.res])]
             /\ db' = r.cu.t
             /\ committed' = r.cu.t
             /\ writes' = r.cu.w
    /\ hist' = [hist EXCEPT !.changes = @ + 1]
    /\ UNCHANGED <<remote, clock, pc, cfg, exitstatus>>

\* the process starts
StartProcess ==
    /\ pc = "idle"
    /\ clock < MaxClock
    /\ clock' = clock + 1
    /\ run' = RunLocals
    /\ writes' = <<>>
    /\ exitstatus' = None
    /\ hist' = [hist EXCEPT !.atStart = committed, !.afterA = None]
    /\ pc' = "config"
    /\ UNCHANGED <<db, committed, remote, cfg>>

\* SD_Config(CONFIG_FNM) raises (a file that cannot be parsed, a log file
\* that cannot be opened): the statement stands before the try
LoadConfigFails ==
    /\ pc = "config"
    /\ pc' = "crashed"
    /\ UNCHANGED <<db, committed, remote, clock, run, writes, hist, cfg, exitstatus>>

\* an exception nothing catches: the interpreter prints it and exits with 1
Crash ==
    /\ pc = "crashed"
    /\ db' = committed
    /\ pc' = "idle"
    /\ exitstatus' = Some(1)
    /\ UNCHANGED <<committed, remote, clock, run, writes, hist, cfg>>

\* a start that does not look at the retry wait
LoadConfig_nogate ==
    /\ pc = "config"
    /\ IF cfg.username = ""
       THEN pc' = "idle" /\ exitstatus' = Some(1) /\ run' = run
       ELSE /\ pc' = "token"
            /\ exitstatus' = exitstatus
            /\ run' = [run EXCEPT !.schema_ok =
                          upgrade_database_schema(Cursor(db), CURRENT_DATABASE_SCHEMA_VERSION)]
    /\ UNCHANGED <<db, committed, remote, clock, writes, hist, cfg>>

\* the retry wait and the access data; SDDB(...) and upgrade_database_schema,
\* whose result is dropped
LoadConfig ==
    /\ pc = "config"
    /\ IF cfg.waituntil # 0 /\ cfg.waituntil > clock
       THEN pc' = "idle" /\ exitstatus' = Some(10) /\ run' = run
       ELSE IF cfg.username = ""
       THEN pc' = "idle" /\ exitstatus' = Some(1) /\ run' = run
       ELSE /\ pc' = "token"
            /\ exitstatus' = exitstatus
            /\ run' = [run EXCEPT !.schema_ok =
                          upgrade_database_schema(Cursor(db), CURRENT_DATABASE_SCHEMA_VERSION)]
    /\ UNCHANGED <<db, committed, remote, clock, writes, hist, cfg>>

TokenAnswers == {"ok", "rejected", "failed"}

\* a token request that goes on to the status when there was no answer
GetToken_lenient ==
    /\ pc = "token"
    /\ \E answer \in TokenAnswers :
          /\ run' = [run EXCEPT !.token = Some(answer)]
          /\ pc' = IF answer # "rejected" THEN "status" ELSE "idle"
          /\ exitstatus' = IF answer # "rejected" THEN exitstatus ELSE Some(1)
    /\ UNCHANGED <<db, committed, remote, clock, writes, hist, cfg>>

\* sd_api.get_token: a token, an answer with a code other than 0 (get_token
\* exits with 1), or no answer (exit 2)
GetToken ==
    /\ pc = "token"
    /\ \E answer \in TokenAnswers :
          /\ run' = [run EXCEPT !.token = Some(answer)]
          /\ pc' = IF answer = "ok" THEN "status" ELSE "idle"
          /\ exitstatus' = IF answer = "ok" THEN exitstatus
                           ELSE IF answer = "rejected" THEN Some(1) ELSE Some(2)
    /\ UNCHANGED <<db, committed, remote, clock, writes, hist, cfg>>

\* sd_api.get_status raises on a request that failed (dat is None)
GetStatusFails ==
    /\ pc = "status"
    /\ pc' = "raised"
    /\ UNCHANGED <<db, committed, remote, clock, run, writes, hist, cfg, exitstatus>>

\* sd_api.get_status, has_expired and check_status; the abort after a failed
\* check evaluates int(time.time) and raises TypeError before cfg.write()
GetStatus ==
    /\ pc = "status"
    /\ \E health \in StatusHealths :
          LET status == get_status(remote, health)
          IN /\ run' = [run EXCEPT !.status = Some(status)]
             /\ IF has_expired(status, clock)
                THEN pc' = "idle" /\ exitstatus' = Some(12)
                ELSE IF ~check_status(status)
                THEN pc' = "raised" /\ exitstatus' = exitstatus
                ELSE pc' = "stageA" /\ exitstatus' = exitstatus
    /\ UNCHANGED <<db, committed, remote, clock, writes, hist, cfg>>

\* db.refresh_lineups_and_stations_if_needed(), db.get_unactive_query_stations(),
\* db.commit() and db.get_active_query_stations(); a failed request for a
\* station list raises inside the refresh
StageA ==
    /\ pc = "stageA"
    /\ \E failing \in {None} \cup {Some(l) : l \in Range(LineupIDs)} :
          LET r == refresh_lineups_and_stations_if_needed(Cursor(db), run.status[1],
                       get_lineup_stations(remote, failing), clock)
              query_stations == get_active_query_stations(r.cu)
          IN /\ db' = r.cu.t
             /\ writes' = r.cu.w
             /\ IF r.cu.exc
                THEN /\ pc' = "raised"
                     /\ run' = [run EXCEPT !.lineups_refreshed = r.refresh_lineups,
                                           !.fetched = r.fetched]
                     /\ UNCHANGED <<committed, hist>>
                ELSE /\ pc' = IF query_stations # <<>> THEN "stageB" ELSE "commit"
                     /\ run' = [run EXCEPT !.lineups_refreshed = r.refresh_lineups,
                                           !.fetched = r.fetched,
                                           !.unactive_query_stations =
                                               get_unactive_query_stations(r.cu),
                                           !.chunks = chunker(query_stations, MAX_STATIONS_IDS)]
                     /\ committed' = r.cu.t
                     /\ hist' = [hist EXCEPT !.afterA = Some(r.cu.t)]
    /\ UNCHANGED <<remote, clock, cfg, exitstatus>>

NextRun ==
    \/ LineupChange
    \/ SetQueryStation
    \/ StartProcess
    \/ LoadConfigFails
    \/ Crash
    \/ LoadConfig
    \/ GetToken
    \/ GetStatusFails
    \/ GetStatus
    \/ StageA
    \/ StageB
    \/ StageC
    \/ StageD
    \/ TransportError
    \/ Commit
    \/ Catchall

SpecRun == InitRun /\ [][NextRun]_vars

(***************************************************************************)
(* Properties of stage A.  A step from pc = "stageA" is the action StageA; *)
(* it has returned normally unless pc' = "raised".                         *)
(***************************************************************************)
\* (id, stamp) of the stored lineups
StoredLineups(tables) ==
    {<<tables.lineups[i]["lineupname"], tables.lineups[i]["modified"]>> :
        i \in 1..Len(tables.lineups)}

\* (id, stamp) of the lineups of the remote listing
ListedLineups(status) ==
    {<<Some(status.lineups[i].lineup), sdtime_to_unixtime(status.lineups[i].modified)>> :
        i \in 1..Len(status.lineups)}

LineupIdsOf(pairs) == {x[1] : x \in pairs}

\* new, deleted and same-but-modified, from the stored and the listed pairs
NewIds(stored, listed) == LineupIdsOf(listed) \ LineupIdsOf(stored)
DeletedIds(stored, listed) == LineupIdsOf(stored) \ LineupIdsOf(listed)
ModifiedIds(stored, listed) ==
    {id \in LineupIdsOf(stored) \cap LineupIdsOf(listed) :
        \E x \in stored, y \in listed : x[1] = id /\ y[1] = id /\ x[2] # y[2]}

StageAReturned == pc = "stageA" /\ pc' # "raised"

\* C12: after stage A has returned, the stored lineup ids are those of the
\* remote listing, one row each, with the stamps of the listing; and it
\* reports "changed" exactly if new, deleted or same-but-modified ids exist.
C12_LineupReconciliation ==
    [][StageAReturned =>
        /\ StoredLineups(db') = ListedLineups(run.status[1])
        /\ Len(db'.lineups) = Cardinality(LineupIdsOf(ListedLineups(run.status[1])))
        /\ run'.lineups_refreshed <=>
              (NewIds(StoredLineups(db), ListedLineups(run.status[1]))
                 \cup DeletedIds(StoredLineups(db), ListedLineups(run.status[1]))
                 \cup ModifiedIds(StoredLineups(db), ListedLineups(run.status[1]))) # {}]_vars

\* stage A has deleted a lineup, inserted another and reported a change
C12_Witness ==
    /\ pc \in {"stageB", "commit"}
    /\ hist.afterA # None
    /\ run.lineups_refreshed
    /\ \E i, j \in 1..Len(writes) :
          /\ writes[i][1] = "DELETE" /\ writes[i][2] = "lineups"
          /\ writes[j][1] = "INSERT" /\ writes[j][2] = "lineups"

\* C13: when the stored lineup ids and stamps are those of the remote
\* listing, stage A asks for no station list, executes no statement, leaves
\* every table as it is and reports "not changed".
C13_StageANoOp ==
    [][(pc = "stageA" /\ StoredLineups(db) = ListedLineups(run.status[1])) =>
        /\ pc' # "raised"
        /\ run'.fetched = <<>>
        /\ writes' = <<>>
        /\ db' = db
        /\ ~run'.lineups_refreshed]_vars

\* stage A found the stored lineups up to date while stations are stored, one
\* of them to be queried
C13_Witness ==
    /\ pc = "stageB"
    /\ hist.afterA # None
    /\ ~run.lineups_refreshed
    /\ writes = <<>>
    /\ Len(db.lineups) > 0
    /\ Len(db.stations) > 1

\* the station ids in the station lists of the lineups of the remote listing
ListedStations(rem) ==
    {item.value.stationID :
        item \in UNION {{x \in Range(StationList(l, rem.lineups[l]).stations) : x.type = "dict"} :
                          l \in {m \in Range(LineupIDs) : rem.lineups[m] # 0}}}

\* C14: after a stage A that has detected a lineup change, a stored station
\* is active exactly if it is in the station list of a lineup of the remote
\* listing, every other stored station is inactive, and every listed
\* station is stored.
C14_ActiveRebuild ==
    [][(StageAReturned /\ run'.lineups_refreshed) =>
        /\ \A i \in 1..Len(db'.stations) :
              /\ db'.stations[i]["active"] \in {Some(0), Some(1)}
              /\ db'.stations[i]["active"] = Some(1)
                    <=> db'.stations[i]["station_id"][1] \in ListedStations(remote)
        /\ \A s \in ListedStations(remote) :
              \E i \in 1..Len(db'.stations) : db'.stations[i]["station_id"] = Some(s)]_vars

\* after a change of the first lineup only, a station it dropped is inactive
\* beside an active one
C14_Witness ==
    /\ pc \in {"stageB", "commit"}
    /\ hist.afterA # None
    /\ run.lineups_refreshed
    /\ remote.lineups[LineupIDs[1]] = 2
    /\ \E i, j \in 1..Len(db.stations) :
          /\ db.stations[i]["active"] = Some(0)
          /\ db.stations[j]["active"] = Some(1)

\* the value of a column for each stored station
StationFlags(tables, col) ==
    {<<tables.stations[i]["station_id"], tables.stations[i][col]>> : i \in 1..Len(tables.stations)}

\* C15: stage A, also one that raises, leaves the query flag of every
\* station that existed as it was; sdconf.py's set_query_station leaves
\* the active flag of every station as it was, and for a station id that
\* is not stored it answers "not found" and executes nothing.
C15_FlagsOrthogonal ==
    [][/\ pc = "stageA" => StationFlags(db, "query_from_sd") \subseteq StationFlags(db', "query_from_sd")
       /\ (pc = "idle" /\ pc' = "idle" /\ run'.query # None) =>
             /\ StationFlags(db', "active") = StationFlags(db, "active")
             /\ (\A i \in 1..Len(db.stations) :
                    db.stations[i]["station_id"] # Some(run'.query[1].station_id)) =>
                   /\ run'.query[1].res = "station not found"
                   /\ db' = db
                   /\ writes' = <<>>]_vars

\* sdconf.py has switched off the query of an active station, which is still active
C15_Witness ==
    /\ pc = "idle"
    /\ run.query # None
    /\ run.query[1].res = "ok"
    /\ ~run.query[1].do_query
    /\ \E i \in 1..Len(db.stations) :
          /\ db.stations[i]["station_id"] = Some(run.query[1].station_id)
          /\ db.stations[i]["active"] = Some(1)
          /\ db.stations[i]["query_from_sd"] = Some(0)

\* the stored stations to be queried that are not active
Dangling(tables) ==
    {tables.stations[i]["station_id"] :
        i \in {j \in 1..Len(tables.stations) :
                  /\ tables.stations[j]["query_from_sd"] = Some(1)
                  /\ tables.stations[j]["active"] = Some(0)}}

\* C16: after stage A the report of dangling stations holds every stored
\* station that is to be queried and is not active exactly once, and no
\* other station; stage A leaves the query flags as they were.
C16_DanglingReport ==
    [][StageAReturned =>
        /\ {run'.unactive_query_stations[i][1] : i \in 1..Len(run'.unactive_query_stations)}
              = Dangling(db')
        /\ Len(run'.unactive_query_stations) = Cardinality(Dangling(db'))
        /\ StationFlags(db, "query_from_sd") \subseteq StationFlags(db', "query_from_sd")]_vars

\* one dangling station was reported while another inactive station, not to
\* be queried, was not
C16_Witness ==
    /\ pc = "commit"
    /\ hist.afterA # None
    /\ Len(run.unactive_query_stations) = 1
    /\ \E i \in 1..Len(db.stations) :
          /\ db.stations[i]["active"] = Some(0)
          /\ db.stations[i]["query_from_sd"] # Some(1)

(***************************************************************************)
(* Exit paths of the run.  The process ends on a step from a position      *)
(* other than "idle" to "idle"; exitstatus' is then its exit status.       *)
(***************************************************************************)
ProcessEnds == pc # "idle" /\ pc' = "idle"

\* the status of the run says that the account has not expired and that the
\* service is not healthy (code other than 0, or a system status other
\* than Online)
Unhealthy(locals, now) ==
    /\ locals.status # None
    /\ ~has_expired(locals.status[1], now)
    /\ ~check_status(locals.status[1])

\* C17: a run whose status check reports the service as not healthy ends
\* with exit status 11, with a retry-not-before time in the future stored in
\* the configuration, and without a fetch or a write of the stages B to D.
C17_UnhealthyAbort ==
    [][ProcessEnds /\ Unhealthy(run, clock) =>
        /\ exitstatus' = Some(11)
        /\ cfg'.waituntil > clock
        /\ run.dat = None
        /\ writes = <<>>
        /\ db' = hist.atStart]_vars

\* the tables of the schedule stages
ScheduleTables == {"scheduleindex", "schedule", "programdata"}
\* the tables of stage A
LineupTables == {"lineups", "stations"}

\* C18: when a run ends in the catch-all after stage A has committed, the
\* file holds the tables as stage A committed them, the tables of the
\* schedule stages being as at the start of the run; when it ends in the
\* catch-all before stage A has committed, lineups and stations (and all
\* other tables) are as at the start of the run.
C18_CheckpointDurability ==
    [][pc = "raised" /\ pc' = "idle" =>
        IF hist.afterA # None
        THEN /\ db' = hist.afterA[1]
             /\ committed' = hist.afterA[1]
             /\ \A t \in ScheduleTables : db'[t] = hist.atStart[t]
        ELSE /\ \A t \in LineupTables : db'[t] = hist.atStart[t]
             /\ db' = hist.atStart
             /\ committed' = hist.atStart]_vars

\* a schedule stage has failed with statements of its own not committed,
\* in a run whose stage A had changed and committed the stations
C18_Witness ==
    /\ pc = "raised"
    /\ hist.afterA # None
    /\ hist.afterA[1].stations # hist.atStart.stations
    /\ \E t \in ScheduleTables : db[t] # committed[t]

\* C19: a run that ends on a failure ends with exit status 100 and commits
\* nothing after the failure; a run that ends otherwise does not end with
\* exit status 100.
C19_CatchAll ==
    [][ProcessEnds =>
        IF pc \in {"raised", "crashed"}
        THEN /\ exitstatus' = Some(100)
             /\ committed' = committed
             /\ db' = committed
        ELSE exitstatus' # Some(100)]_vars

\* C20: a run that finds a schema version other than the required one, with
\* no upgrade plan, ends there with a failure status: it asks for no token
\* and reaches no stage.
C20_SchemaFailureStops ==
    [][(/\ pc = "config"
        /\ pc' # "crashed"
        /\ ~upgrade_database_schema(Cursor(db), CURRENT_DATABASE_SCHEMA_VERSION)) =>
            /\ pc' = "idle"
            /\ exitstatus' \notin {None, Some(0)}]_vars

(***************************************************************************)
(* The batch loops of __main__ by the number of ids they carry:            *)
(* SpecBatches follows the stage loop for watch sets of any size, with a   *)
(* list standing for its length.  run.calls is the sequence of the calls   *)
(* __main__ has made from stage A on, each <<function, number of ids (or   *)
(* of items) in the call>>.                                                *)
(***************************************************************************)
\* the lengths of the chunks of chunker(seq, size) for a seq of length len:
\* seq[pos:pos + size] for pos in range(0, len, size)
chunker_sizes(len, size) ==
    [i \in 1..((len + size - 1) \div size) |->
        IF i * size <= len THEN size ELSE len - (i - 1) * size]

\* the sizes tried, around the ceilings of the calls
BatchSizes == {0, 1, 500, 501, 5001}

\* sizes from low to high, as far as they occur in BatchSizes, and high itself
SizesBetween(low, high) == {k \in BatchSizes : low <= k /\ k <= high} \cup {high}

RemoteCalls ==
    {"get_schedules_md5_max", "get_schedules", "get_programs_max", "get_program_artwork_max"}

\* the most ids the function accepts in one call
Ceiling(function) ==
    CASE function = "get_schedules_md5_max" -> MAX_STATIONS_IDS
      [] function = "get_schedules" -> 500
      [] function = "get_programs_max" -> MAX_PROGRAM_IDS
      [] function = "get_program_artwork_max" -> MAX_ARTWORK_IDS

BatchLocals == [chunks |-> <<>>, calls |-> <<>>, open_schedules |-> 0, open_programs |-> 0]

CallsOf(function, sizes) == [i \in 1..Len(sizes) |-> <<function, sizes[i]>>]

\* for chunk in chunker(...): dat = fetch(chunk); store(dat)
FetchAndStoreCalls(fetch, store, sizes) ==
    [i \in 1..(2 * Len(sizes)) |->
        <<IF i % 2 = 1 THEN fetch ELSE store, sizes[(i + 1) \div 2]>>]

InitBatches ==
    /\ db = EmptyTables
    /\ committed = EmptyTables
    /\ remote = InitRemote
    /\ clock = 0
    /\ pc = "idle"
    /\ run = BatchLocals
    /\ writes = <<>>
    /\ hist = [changes |-> 0, remoteAtCommit |-> None]
    /\ cfg = ConfiguredCfg
    /\ exitstatus = None

\* a stage A that does not commit
StartBatches_nocommit ==
    /\ pc = "idle"
    /\ \E n \in BatchSizes :
          /\ run' = [BatchLocals EXCEPT
                        !.calls = <<<<"refresh_lineups_and_stations_if_needed", 0>>,
                                    <<"get_unactive_query_stations", 0>>,
                                    <<"get_active_query_stations", n>>>>,
                        !.chunks = chunker_sizes(n, MAX_STATIONS_IDS)]
          /\ pc' = IF n # 0 THEN "stageB" ELSE "commit"
    /\ exitstatus' = None
    /\ UNCHANGED <<db, committed, remote, clock, writes, hist, cfg>>

\* stage A and its commit; query_stations of any length, chunked by
\* MAX_STATIONS_IDS
StartBatches ==
    /\ pc = "idle"
    /\ \E n \in BatchSizes :
          /\ run' = [BatchLocals EXCEPT
                        !.calls = <<<<"refresh_lineups_and_stations_if_needed", 0>>,
                                    <<"get_unactive_query_stations", 0>>,
                                    <<"commit", 0>>,
                                    <<"get_active_query_stations", n>>>>,
                        !.chunks = chunker_sizes(n, MAX_STATIONS_IDS)]
          /\ pc' = IF n # 0 THEN "stageB" ELSE "commit"
    /\ exitstatus' = None
    /\ UNCHANGED <<db, committed, remote, clock, writes, hist, cfg>>

\* get_schedules_md5_max for the chunk; store_schedule_index returns the
\* stations of the chunk that have a new or changed day
FingerprintCall ==
    /\ pc = "stageB"
    /\ \E n \in SizesBetween(0, Head(run.chunks)) :
          /\ run' = [run EXCEPT !.calls = @ \o <<<<"get_schedules_md5_max", Head(run.chunks)>>,
                                                   <<"store_schedule_index", Head(run.chunks)>>>>,
                                !.open_schedules = n,
                                !.open_programs = 0,
                                !.chunks = IF n > 0 THEN @ ELSE Tail(@)]
          /\ pc' = IF n > 0 THEN "stageC" ELSE AfterChunk(run.chunks)
    /\ UNCHANGED <<db, committed, remote, clock, writes, hist, cfg, exitstatus>>

\* get_schedules(open_schedules), whose assertion on the number of stations
\* raises; store_schedules returns programs in any number
ScheduleCall ==
    /\ pc = "stageC"
    /\ \E n \in BatchSizes :
          LET asserted == run.open_schedules <= Ceiling("get_schedules")
          IN /\ run' = [run EXCEPT !.calls = @ \o <<<<"get_schedules", run.open_schedules>>>>
                                                 \o IF asserted
                                                    THEN <<<<"store_schedules", run.open_schedules>>>>
                                                    ELSE <<>>,
                                   !.open_programs = IF asserted THEN n ELSE 0,
                                   !.chunks = IF asserted /\ n = 0 THEN Tail(@) ELSE @]
             /\ pc' = IF ~asserted THEN "raised"
                      ELSE IF n > 0 THEN "stageD" ELSE AfterChunk(run.chunks)
    /\ UNCHANGED <<db, committed, remote, clock, writes, hist, cfg, exitstatus>>

\* get_program_artwork_max for the shortened ids, of which there are at
\* least one and at most as many as programs, chunked by MAX_ARTWORK_IDS;
\* get_programs_max for the programs, chunked by MAX_PROGRAM_IDS
ProgramCalls ==
    /\ pc = "stageD"
    /\ \E n \in SizesBetween(1, run.open_programs) :
          run' = [run EXCEPT !.calls = @ \o CallsOf("get_program_artwork_max",
                                                     chunker_sizes(n, MAX_ARTWORK_IDS))
                                         \o FetchAndStoreCalls("get_programs_max", "store_programs",
                                                chunker_sizes(run.open_programs, MAX_PROGRAM_IDS)),
                               !.chunks = Tail(@)]
    /\ pc' = AfterChunk(run.chunks)
    /\ UNCHANGED <<db, committed, remote, clock, writes, hist, cfg, exitstatus>>

NextBatches ==
    \/ StartBatches
    \/ FingerprintCall
    \/ ScheduleCall
    \/ ProgramCalls
    \/ Commit
    \/ Catchall

SpecBatches == InitBatches /\ [][NextBatches]_vars

\* C21: no remote call of a run carries more ids than the function called
\* accepts.
C21_BatchCeilings ==
    \A i \in 1..Len(run.calls) :
        run.calls[i][1] \in RemoteCalls => run.calls[i][2] <= Ceiling(run.calls[i][1])

\* the stage a call of __main__ belongs to: 1 for stage A, ..., 4 for stage D
StageOf(function) ==
    CASE function \in {"get_schedules_md5_max", "store_schedule_index"} -> 2
      [] function \in {"get_schedules", "store_schedules"} -> 3
      [] function \in {"get_program_artwork_max", "get_programs_max", "store_programs"} -> 4
      [] OTHER -> 1

\* C22 as stated: the commit of stage A precedes every call of the stages B
\* to D, and no call of a stage is followed by a call of an earlier stage,
\* whatever the size of the watch set.
C22_StagesInOrder ==
    \A j \in 1..Len(run.calls) :
        /\ StageOf(run.calls[j][1]) > 1 =>
               \E i \in 1..(j - 1) : run.calls[i][1] = "commit"
        /\ \A i \in 1..(j - 1) : StageOf(run.calls[i][1]) <= StageOf(run.calls[j][1])

\* C22: the commit of stage A precedes every call of the stages B to D, no
\* call of stage A follows one of them, and a call of a stage is followed by
\* a call of an earlier stage only across the fingerprint call that begins
\* the next batch of stations: within a batch the stages are in order.
C22_StagesInOrderPerBatch ==
    \A j \in 1..Len(run.calls) :
        /\ StageOf(run.calls[j][1]) > 1 =>
               \E i \in 1..(j - 1) : run.calls[i][1] = "commit"
        /\ \A i \in 1..(j - 1) :
              StageOf(run.calls[i][1]) > StageOf(run.calls[j][1]) =>
                  /\ StageOf(run.calls[j][1]) > 1
                  /\ \E k \in (i + 1)..j : run.calls[k][1] = "get_schedules_md5_max"

\* a watch set of more than one batch: programs of the first batch were
\* stored before the fingerprints of the second batch were fetched
C22_Witness ==
    \E i, j \in 1..Len(run.calls) :
        /\ i < j
        /\ run.calls[i][1] = "store_programs"
        /\ run.calls[j] = <<"get_schedules_md5_max", 1>>

(***************************************************************************)
(* The schedule stages with a service that may answer get_schedules with   *)
(* an item for a day that was not asked for: SpecSchedules is Spec with    *)
(* StageCMisdated in the place of StageC.                                  *)
(***************************************************************************)
\* a day the service never lists in the fingerprint call
ForeignDay == <<2015, 3, 9>>

\* the answer with item k (0: none) dated to the foreign day
Misdated(items, k) ==
    [i \in 1..Len(items) |->
        IF i = k THEN [items[i] EXCEPT !.metadata.startDate = ForeignDay] ELSE items[i]]

\* get_schedules and store_schedules for the dirty days of the chunk
StageCMisdated ==
    /\ pc = "stageC"
    /\ \E k \in 0..Len(ScheduleItemsAll(remote, run.open_schedules)) :
          LET asked == get_schedules(remote, run.open_schedules)
              dat == IF asked = None THEN None ELSE Some(Misdated(asked[1], k))
              r == IF dat = None THEN [cu |-> Raise(Cursor(db)), update_programs |-> <<>>]
                   ELSE store_schedules(Cursor(db), dat[1])
          IN /\ db' = r.cu.t
             /\ writes' = writes \o r.cu.w
             /\ run' = [run EXCEPT !.schedules = dat,
                                   !.open_programs = r.update_programs,
                                   !.chunks = IF r.cu.exc \/ Len(r.update_programs) > 0
                                              THEN @ ELSE Tail(@)]
             /\ pc' = IF r.cu.exc THEN "raised"
                      ELSE IF Len(r.update_programs) > 0 THEN "stageD"
                      ELSE AfterChunk(run.chunks)
    /\ UNCHANGED <<committed, remote, clock, hist, cfg, exitstatus>>

NextSchedules ==
    \/ RemoteChange
    \/ StartRun
    \/ StageB
    \/ StageCMisdated
    \/ StageD
    \/ TransportError
    \/ Commit
    \/ Catchall

SpecSchedules == Init /\ [][NextSchedules]_vars

\* the items of the answer for whose station and day the table has no
\* scheduleindex row
Unindexed(tables, items) ==
    {i \in 1..Len(items) :
        ~\E j \in 1..Len(tables.scheduleindex) :
            /\ tables.scheduleindex[j]["station_id"] = Some(items[i].stationID)
            /\ tables.scheduleindex[j]["startdate"]
                  = date_to_int(items[i].metadata.startDate)}

\* the number of programs of the first n items
RECURSIVE ProgramCount(_, _)
ProgramCount(items, n) ==
    IF n = 0 THEN 0 ELSE Len(items[n].programs) + ProgramCount(items, n - 1)

\* C23: when the answer to get_schedules holds an item for whose station
\* and day there is no scheduleindex row, store_schedules raises having
\* inserted schedule rows for the items before the first such item only and
\* nothing is committed; the run then ends in the catch-all with status 100,
\* the file being as last committed.
C23_MissingIndexFatal ==
    [][/\ (pc = "stageC" /\ run'.schedules # None
              /\ Unindexed(db, run'.schedules[1]) # {}) =>
            LET items == run'.schedules[1]
                first == CHOOSE i \in Unindexed(db, items) :
                            \A j \in Unindexed(db, items) : i <= j
            IN /\ pc' = "raised"
               /\ Len(db'.schedule) = Len(db.schedule) + ProgramCount(items, first - 1)
               /\ \A t \in {"scheduleindex", "programdata"} : db'[t] = db[t]
               /\ committed' = committed
       /\ pc = "raised" =>
            /\ pc' = "idle"
            /\ exitstatus' = Some(100)
            /\ committed' = committed
            /\ db' = committed]_vars

\* store_schedules has raised on the second or a later item of the answer,
\* with the rows of the items before it inserted and not committed
C23_Witness ==
    /\ pc = "raised"
    /\ run.schedules # None
    /\ \E i \in 2..Len(run.schedules[1]) : run.schedules[1][i].metadata.startDate = ForeignDay
    /\ Len(db.schedule) > Len(committed.schedule)
    /\ db.scheduleindex # committed.scheduleindex

(***************************************************************************)
(* The worklist of store_schedules, on the stage C steps of Spec.          *)
(***************************************************************************)
\* the programs of all items of an answer, in the order of the answer
RECURSIVE ReferencedPrograms(_)
ReferencedPrograms(items) ==
    IF Len(items) = 0 THEN <<>>
    ELSE Head(items).programs \o ReferencedPrograms(Tail(items))

\* the entry carries a fingerprint that is not the one stored for its program
IsOpenReference(tables, program) ==
    \A i \in 1..Len(tables.programdata) :
        tables.programdata[i]["program_id"] = Some(program.programID) =>
            tables.programdata[i]["md5"] # Some(program.md5)

\* position of the first open reference to the program
FirstOpen(tables, refs, program_id) ==
    CHOOSE i \in 1..Len(refs) :
        /\ refs[i].programID = program_id /\ IsOpenReference(tables, refs[i])
        /\ \A j \in 1..(i - 1) :
              ~(refs[j].programID = program_id /\ IsOpenReference(tables, refs[j]))

\* C24: the list store_schedules returns holds a program exactly if an entry
\* of the answer refers to it with a fingerprint that is not the stored one
\* (or none is stored), holds it once, and is in the order in which the
\* programs were first seen with such an entry; every entry of the answer
\* was inserted.
C24_OpenPrograms ==
    [][(pc = "stageC" /\ pc' # "raised" /\ run'.schedules # None) =>
        LET refs == ReferencedPrograms(run'.schedules[1])
            open == {refs[i].programID :
                        i \in {j \in 1..Len(refs) : IsOpenReference(db, refs[j])}}
            list == run'.open_programs
        IN /\ Len(db'.schedule) = Len(db.schedule) + Len(refs)
           /\ Range(list) = open
           /\ Len(list) = Cardinality(open)
           /\ \A i, j \in 1..Len(list) :
                 i < j => FirstOpen(db, refs, list[i]) < FirstOpen(db, refs, list[j])]_vars

\* store_schedules has returned a list with a program that has two entries
\* in the answer, while another program of the answer, referred to with its
\* stored fingerprint, is not in the list
C24_Witness ==
    /\ pc = "stageD"
    /\ run.schedules # None
    /\ Len(run.open_programs) > 0
    /\ LET refs == ReferencedPrograms(run.schedules[1])
       IN /\ \E i \in 1..Len(refs) : refs[i].programID \notin Range(run.open_programs)
          /\ \E i, j \in 1..Len(refs) :
                i < j /\ refs[i].programID = refs[j].programID
                      /\ refs[i].programID \in Range(run.open_programs)

(***************************************************************************)
(* Artwork by shortened identifier, on the stage D steps of Spec.          *)
(***************************************************************************)
\* the first 10 characters of a program identifier
Prefix(program_id) == SubSeq(program_id, 1, 10)

\* the statements the step has added to the log
NewWrites == SubSeq(writes', Len(writes) + 1, Len(writes'))

\* the statements among ws that write the programdata row of the program
ProgramWrites(ws, program_id) ==
    {i \in 1..Len(ws) : WritesProgram(ws[i], program_id)}

\* the value the statement gives to the column: None if it gives none
WrittenValue(w, col) ==
    IF w[1] = "INSERT" THEN w[3][col]
    ELSE IF col \in Range(w[5]) THEN w[6][IndexOf(w[5], col)]
    ELSE None

\* the artwork (uri, caption, width, height) resolved for a prefix, if any
Resolved(artwork_info, prefix) ==
    {artwork_info[i][2] : i \in {j \in 1..Len(artwork_info) : artwork_info[j][1] = prefix}}

\* C25: the shortened ids asked of the artwork call are the 10-character
\* prefixes of the open programs, each once, in the order in which they are
\* first seen; every open program is stored by one statement, which gives it
\* the artwork resolved for its own prefix, and no artwork if none was
\* resolved for that prefix.
C25_ArtworkByPrefix ==
    [][(pc = "stageD" /\ pc' # "raised") =>
        LET programs == run.open_programs
            shorts == calc_short_program_ids(programs)
            artwork_info == run'.artwork_info[1]
        IN /\ Range(shorts) = {Prefix(programs[i]) : i \in 1..Len(programs)}
           /\ Len(shorts) = Cardinality(Range(shorts))
           /\ \A i, j \in 1..Len(shorts) :
                 i < j => \E k \in 1..Len(programs) :
                             /\ Prefix(programs[k]) = shorts[i]
                             /\ \A l \in 1..k : Prefix(programs[l]) # shorts[j]
           /\ {artwork_info[i][1] : i \in 1..Len(artwork_info)} \subseteq Range(shorts)
           /\ \A k \in 1..Len(programs) :
                 /\ Cardinality(ProgramWrites(NewWrites, programs[k])) = 1
                 /\ \A i \in ProgramWrites(NewWrites, programs[k]) :
                       LET art == Resolved(artwork_info, Prefix(programs[k]))
                       IN IF art = {}
                          THEN /\ WrittenValue(NewWrites[i], "artwork_uri") = None
                               /\ WrittenValue(NewWrites[i], "artwort_caption") = None
                          ELSE \A a \in art :
                                  /\ WrittenValue(NewWrites[i], "artwork_uri") = Some(a[1])
                                  /\ WrittenValue(NewWrites[i], "artwort_caption") = a[2]
                                  /\ WrittenValue(NewWrites[i], "artwork_width") = a[3]
                                  /\ WrittenValue(NewWrites[i], "artwork_height") = a[4]]_vars

\* stage D has stored two programs of one prefix with the same artwork and a
\* program of another prefix, for which none was resolved, without artwork
C25_Witness ==
    /\ pc \in {"stageB", "commit"}
    /\ run.artwork_info # None
    /\ \E i, j, k \in 1..Len(db.programdata) :
          /\ db.programdata[i]["program_id"] = Some(EP1a)
          /\ db.programdata[j]["program_id"] = Some(EP1b)
          /\ db.programdata[k]["program_id"] = Some(MV2)
          /\ db.programdata[i]["artwork_uri"] # None
          /\ db.programdata[j]["artwork_uri"] = db.programdata[i]["artwork_uri"]
          /\ db.programdata[k]["artwork_uri"] = None
    /\ \A p \in ProgramIDs : ProgramWrites(writes, p) # {}

(***************************************************************************)
(* The artwork resolver on its own: SpecArtwork applies                    *)
(* proc_program_artwork_info to the answer for one shortened id whose      *)
(* asset list is any list of up to MaxAssets assets.                       *)
(***************************************************************************)
MaxAssets == 3

AssetCategories == {"Iconic", "Cast Ensemble", "Logo"}
AssetSizes == {"Md", "Sm", "Lg", "Xl"}

\* the asset listed at position i: its uri names the position
Asset(i, category, size) ==
    [uri |-> <<"", "assets/u" \o ToString(i) \o ".jpg">>, category |-> category,
     size |-> size, width |-> 100 * i, height |-> 150 * i]

\* an asset without a category, which the resolver passes over
PlainAsset(i) == [uri |-> <<"", "assets/u" \o ToString(i) \o ".jpg">>, size |-> "Md"]

AssetsAt(i) ==
    {Asset(i, c, z) : c \in AssetCategories, z \in AssetSizes} \cup {PlainAsset(i)}

\* the lists of n assets
RECURSIVE AssetListsOf(_)
AssetListsOf(n) ==
    IF n = 0 THEN {<<>>}
    ELSE {Append(l, a) : l \in AssetListsOf(n - 1), a \in AssetsAt(n)}

AssetLists == UNION {AssetListsOf(n) : n \in 1..MaxAssets}

InitArtwork ==
    /\ db = EmptyTables
    /\ committed = EmptyTables
    /\ remote = InitRemote
    /\ clock = 0
    /\ pc = "artwork"
    /\ \E l \in AssetLists : run = [data |-> l, res |-> None]
    /\ writes = <<>>
    /\ hist = [changes |-> 0, remoteAtCommit |-> None]
    /\ cfg = ConfiguredCfg
    /\ exitstatus = None

\* artwork_info = sd_api.proc_program_artwork_info(all_artwork_dat)
ResolveArtwork ==
    /\ pc = "artwork"
    /\ run' = [run EXCEPT !.res = Some(proc_program_artwork_info(
                   <<[programID |-> shorten_program_id(EP1a), data |-> Some(run.data)]>>))]
    /\ pc' = "resolved"
    /\ UNCHANGED <<db, committed, remote, clock, writes, hist, cfg, exitstatus>>

NextArtwork == ResolveArtwork

SpecArtwork == InitArtwork /\ [][NextArtwork]_vars

\* the assets of the list that have a category and a size
Usable(list) ==
    SelectSeq(list, LAMBDA a : "category" \in DOMAIN a /\ "size" \in DOMAIN a)

\* the first value of the preference order that is among the values seen, or
\* else the value seen first
Chosen(seen, preference) ==
    IF \E i \in 1..Len(preference) : preference[i] \in Range(seen)
    THEN preference[CHOOSE i \in 1..Len(preference) :
                       /\ preference[i] \in Range(seen)
                       /\ \A j \in 1..(i - 1) : preference[j] \notin Range(seen)]
    ELSE seen[1]

\* C26: for an asset list with at least one asset that has a category and a
\* size, the resolver returns for the shortened id the first listed asset of
\* the bucket (category, size), the category being the first of Iconic,
\* Banner-L1, Cast Ensemble, Cast in Character that occurs in the list, or
\* else the category of the first asset, and the size the first of Md, Sm,
\* Lg, Xs, Ms that occurs in that category, or else the size of the first
\* asset of that category.
C26_ResolverSelection ==
    (pc = "resolved" /\ Usable(run.data) # <<>>) =>
        LET usable == Usable(run.data)
            category == Chosen([i \in 1..Len(usable) |-> usable[i].category],
                               <<"Iconic", "Banner-L1", "Cast Ensemble", "Cast in Character">>)
            incat == SelectSeq(usable, LAMBDA a : a.category = category)
            size == Chosen([i \in 1..Len(incat) |-> incat[i].size],
                           <<"Md", "Sm", "Lg", "Xs", "Ms">>)
            first == SelectSeq(incat, LAMBDA a : a.size = size)[1]
        IN /\ ~run.res[1].exc
           /\ run.res[1].res =
                 << <<shorten_program_id(EP1a),
                      <<<<"https:", "//json.schedulesdirect.org/20141201/image/" \o first.uri[2]>>,
                        None, Some(first.width), Some(first.height)>>>> >>

\* the list Cast Ensemble/Lg, Iconic/Md, Iconic/Sm was resolved to its
\* second asset
C26_Witness ==
    /\ pc = "resolved"
    /\ run.data = <<Asset(1, "Cast Ensemble", "Lg"), Asset(2, "Iconic", "Md"),
                    Asset(3, "Iconic", "Sm")>>
    /\ run.res[1].res[1][2][3] = Some(200)

(***************************************************************************)
(* The guide service client on its own: SpecApi applies api_access to any  *)
(* answer of the service.  An answer is [webstatus, content_type, body],   *)
(* the body being what json.loads gives for it: a list, or an object as a  *)
(* record.                                                                 *)
(***************************************************************************)
WebStatuses == {200, 201, 400, 403, 404, 500}
ContentTypes == {"application/json;charset=UTF-8", "text/html"}
EnvelopeCodes == {0, 1004, 3000, 4001, 4003, 4009}

\* an answer that is an envelope: a result code and a message
Envelope(code) ==
    [type |-> "dict",
     value |-> [code |-> code, message |-> IF code = 0 THEN "OK" ELSE "Error",
                response |-> IF code = 0 THEN "OK" ELSE "ERROR_" \o ToString(code)]]

ApiBodies ==
    {Envelope(code) : code \in EnvelopeCodes}
        \cup {[type |-> "list", value |-> <<>>],
              [type |-> "dict", value |-> [stationID |-> WatchSet[1]]]}

JsonContent(content_type) == content_type = "application/json;charset=UTF-8"

\* SD_API.api_access after get_url: [dat, rc, shown]; dat is what the call
\* returns, rc the result code, shown whether show_error reports an error
api_access(answer, show_non_zero_code) ==
    LET ok == answer.webstatus \div 100 = 2
        dat == IF ~ok THEN None
               ELSE IF JsonContent(answer.content_type) THEN Some(answer.body)
               ELSE Some([type |-> "raw", value |-> answer.body])
        rc == IF ~ok THEN Some(0 - answer.webstatus)
              ELSE IF JsonContent(answer.content_type) /\ answer.body.type = "dict"
              THEN RecGet(answer.body.value, "code")
              ELSE None
    IN [dat |-> dat, rc |-> rc,
        shown |-> rc # Some(0) /\ show_non_zero_code /\ dat # None /\ rc # None]

InitApi ==
    /\ db = EmptyTables
    /\ committed = EmptyTables
    /\ remote = InitRemote
    /\ clock = 0
    /\ pc = "request"
    /\ \E w \in WebStatuses, c \in ContentTypes, b \in ApiBodies :
          run = [answer |-> [webstatus |-> w, content_type |-> c, body |-> b],
                 result |-> None]
    /\ writes = <<>>
    /\ hist = [changes |-> 0, remoteAtCommit |-> None]
    /\ cfg = ConfiguredCfg
    /\ exitstatus = None

\* a call of the client: self.api_access(...)
ApiCall ==
    /\ pc = "request"
    /\ run' = [run EXCEPT !.result = Some(api_access(run.answer, TRUE))]
    /\ pc' = "answered"
    /\ UNCHANGED <<db, committed, remote, clock, writes, hist, cfg, exitstatus>>

NextApi == ApiCall

SpecApi == InitApi /\ [][NextApi]_vars

\* the body of the answer is an envelope whose result code is not 0
ErrorEnvelope(answer) ==
    /\ answer.body.type = "dict"
    /\ "code" \in DOMAIN answer.body.value
    /\ answer.body.value.code # 0

\* C27: a call that is answered with an envelope whose result code is not 0
\* returns None.
C27_ErrorEnvelopeIsNull ==
    (pc = "answered" /\ ErrorEnvelope(run.answer)) => run.result[1].dat = None

(***************************************************************************)
(* The token, on SpecRun.  run.token is the answer to the token request:   *)
(* "ok", "rejected" (an envelope with a code other than 0) or "failed"     *)
(* (no payload).                                                           *)
(***************************************************************************)
\* C28: when the token request fails, the process ends at once with an exit
\* status other than 0, the tables and the configuration being untouched and
\* no status fetched; a run is at the status request or in a stage only
\* with a token.
C28_TokenFailureFatal ==
    [][/\ (pc = "token" /\ run'.token # Some("ok")) =>
             /\ pc' = "idle"
             /\ exitstatus' \in {Some(1), Some(2)}
             /\ run'.status = None
             /\ db' = db /\ committed' = committed /\ writes' = <<>> /\ cfg' = cfg
       /\ pc' \in {"status", "stageA", "stageB", "stageC", "stageD", "commit"} =>
             run'.token = Some("ok")]_vars

\* the process has ended with status 2 after a token request without payload
C28_Witness ==
    /\ pc = "idle"
    /\ run.token = Some("failed")
    /\ exitstatus = Some(2)

(***************************************************************************)
(* Deletes.  SpecSync starts from the tables of an account whose lineups    *)
(* and stations are stored and whose watch set is marked for querying.     *)
(* From there the account, the guide data and the marks change and the     *)
(* process runs.                                                           *)
(***************************************************************************)
\* the service at the time of the synchronization: both lineups in the account
SyncedRemote == [md5 |-> InitRemote.md5, prog |-> InitRemote.prog,
                 lineups |-> [l \in Range(LineupIDs) |-> 1]]

\* the tables after __main__ has run on the new database (stage A)
SyncedStations ==
    refresh_lineups_and_stations_if_needed(Cursor(EmptyTables),
        get_status(SyncedRemote, "ok"), get_lineup_stations(SyncedRemote, None), 0).cu.t

\* ... and sdconf.py has marked the stations of the watch set
SyncedMarks ==
    set_query_station(set_query_station(Cursor(SyncedStations), WatchSet[1], TRUE).cu,
                      WatchSet[2], TRUE).cu.t

\* ... and __main__ has run again: stage B,
SyncedIndex ==
    store_schedule_index(Cursor(SyncedMarks),
        get_schedules_md5_max(SyncedRemote, get_active_query_stations(Cursor(SyncedMarks))))

\* stage C
SyncedSchedules ==
    store_schedules(Cursor(SyncedIndex.cu.t),
                    get_schedules(SyncedRemote, SyncedIndex.new_schedules)[1])

\* the artwork of stage D
SyncedArtwork ==
    proc_program_artwork_info(FetchArtwork(
        chunker(calc_short_program_ids(SyncedSchedules.update_programs), MAX_ARTWORK_IDS)))

\* and the programs of stage D: the tables of the synchronized account
SyncedTables ==
    FetchAndStorePrograms(Cursor(SyncedSchedules.cu.t), SyncedRemote,
        chunker(SyncedSchedules.update_programs, MAX_PROGRAM_IDS),
        Some(SyncedArtwork.res), 0).t

InitSync ==
    /\ db = SyncedMarks
    /\ committed = db
    /\ remote = SyncedRemote
    /\ clock = 0
    /\ pc = "idle"
    /\ run = RunLocals
    /\ writes = <<>>
    /\ hist = [changes |-> 0, remoteAtCommit |-> None, atStart |-> db, afterA |-> None]
    /\ cfg = ConfiguredCfg
    /\ exitstatus = None

NextSync ==
    \/ RemoteChange
    \/ LineupChange
    \/ SetQueryStation
    \/ StartProcess
    \/ LoadConfigFails
    \/ Crash
    \/ LoadConfig
    \/ GetToken
    \/ GetStatusFails
    \/ GetStatus
    \/ StageA
    \/ StageB
    \/ StageC
    \/ StageD
    \/ TransportError
    \/ Commit
    \/ Catchall

SpecSync == InitSync /\ [][NextSync]_vars

\* the statements of the step: stage A and sdconf.py start the log anew, the
\* later stages add to it
StepWrites ==
    IF pc \in {"stageB", "stageC", "stageD"} THEN NewWrites
    ELSE IF writes' # writes THEN writes'
    ELSE <<>>

\* the keys of the rows of a table
KeysOf(tables, table) ==
    CASE table = "stations" -> {r["station_id"] : r \in Range(tables.stations)}
      [] table = "scheduleindex" ->
             {<<r["station_id"], r["startdate"]>> : r \in Range(tables.scheduleindex)}
      [] table = "programdata" -> {r["program_id"] : r \in Range(tables.programdata)}
      [] table = "lineups" -> {r["lineupname"] : r \in Range(tables.lineups)}

\* the tables from which nothing is deleted
KeptTables == {"stations", "scheduleindex", "programdata"}

\* the lineup is not in the listing of the status
Unlisted(status, lineupname) ==
    \A j \in 1..Len(status.lineups) : Some(status.lineups[j].lineup) # lineupname

\* the ids of the scheduleindex rows whose fingerprint the step has changed
ChangedDays(before, after) ==
    {r["id"] : r \in {x \in Range(before.scheduleindex) :
                         \E y \in Range(after.scheduleindex) :
                             y["id"] = x["id"] /\ y["md5"] # x["md5"]}}

\* the step ends the process on an exception: the statements that were not
\* committed are rolled back
RolledBack == pc \in {"raised", "crashed"}

\* C29: no step deletes a row of stations, scheduleindex or programdata: the
\* keys of these tables only grow, in the file as committed and, but for the
\* rollback of a failed run, in the tables the statements work on.  The only
\* DELETE statements are on lineups, for an id that is not in the listing of
\* the status, and on schedule, for the id of a scheduleindex row whose
\* fingerprint the step changes; a lineups row disappears only if its id is
\* not listed, a schedule row only if the fingerprint of its day has changed.
C29_NoHardDeletes ==
    [][/\ \A table \in KeptTables :
              /\ KeysOf(committed, table) \subseteq KeysOf(committed', table)
              /\ ~RolledBack => KeysOf(db, table) \subseteq KeysOf(db', table)
       /\ \A i \in 1..Len(StepWrites) :
              StepWrites[i][1] = "DELETE" =>
                  \/ /\ StepWrites[i][2] = "lineups"
                     /\ StepWrites[i][3] = "lineupname"
                     /\ pc = "stageA"
                     /\ Unlisted(run.status[1], StepWrites[i][4])
                  \/ /\ StepWrites[i][2] = "schedule"
                     /\ StepWrites[i][3] = "scheduleindex"
                     /\ StepWrites[i][4] \in ChangedDays(db, db')
       /\ ~RolledBack =>
              /\ \A l \in KeysOf(db, "lineups") \ KeysOf(db', "lineups") :
                     pc = "stageA" /\ Unlisted(run.status[1], l)
              /\ \A r \in Range(db.schedule) \ Range(db'.schedule) :
                     r["scheduleindex"] \in ChangedDays(db, db')]_vars

\* a run has deleted a lineup that left the account and the entries of a day
\* whose fingerprint changed; the station, its days and the programs are
\* still stored
C29_Witness ==
    /\ \E i \in 1..Len(writes) : writes[i][1] = "DELETE" /\ writes[i][2] = "lineups"
    /\ \E i \in 1..Len(writes) : writes[i][1] = "DELETE" /\ writes[i][2] = "schedule"
    /\ KeysOf(SyncedMarks, "stations") \subseteq KeysOf(db, "stations")
    /\ KeysOf(committed, "scheduleindex") # {}
    /\ KeysOf(committed, "scheduleindex") \subseteq KeysOf(db, "scheduleindex")
    /\ KeysOf(committed, "programdata") # {}
    /\ KeysOf(committed, "programdata") \subseteq KeysOf(db, "programdata")
    /\ LineupIDs[1] \notin {l[1] : l \in KeysOf(db, "lineups")}

(***************************************************************************)
(* The export (genepg.py).  SpecExport starts from the tables of a         *)
(* synchronized account; the export reads the program of one schedule row  *)
(* after the other with get_program and ends without a commit.             *)
(* run.reads lists (program_id, time, result) of the reads of the process. *)
(***************************************************************************)
\* reads of one export
MaxReads == 3

\* a program identifier for which nothing is stored
UnstoredProgram == <<"S", "H", "0", "0", "0", "0", "0", "0", "0", "9", "0", "0", "0", "0">>

\* the identifiers get_program is called with
ReadIds == {Some(p) : p \in ProgramIDs} \cup {Some(UnstoredProgram), None}

\* SDDB.get_program: [cu, res], res the row as selected or None
get_program(cu, program_id, curtime) ==
    IF program_id = None THEN [cu |-> cu, res |-> None]
    ELSE LET res == SelectOne(cu, "programdata", "program_id", program_id)
         IN IF res = None THEN [cu |-> cu, res |-> None]
            ELSE [cu |-> execute_update(cu, add(Query_builder("programdata"), "last_access",
                                                Some(curtime), FALSE),
                                        "program_id", program_id),
                  res |-> res]

ExportLocals == [reads |-> <<>>]

InitExport ==
    /\ db = SyncedTables
    /\ committed = db
    /\ remote = SyncedRemote
    /\ clock = 0
    /\ pc = "idle"
    /\ run = ExportLocals
    /\ writes = <<>>
    /\ hist = [changes |-> 0, remoteAtCommit |-> None]
    /\ cfg = ConfiguredCfg
    /\ exitstatus = None

\* genepg.py starts: SDDB(None, cfg)
ExportStart ==
    /\ pc = "idle"
    /\ clock < MaxClock
    /\ clock' = clock + 1
    /\ pc' = "export"
    /\ run' = ExportLocals
    /\ writes' = <<>>
    /\ exitstatus' = None
    /\ UNCHANGED <<db, committed, remote, hist, cfg>>

\* prog = db.get_program(sched["program_id"]) in the loop over the schedule rows
ExportRead ==
    /\ pc = "export"
    /\ Len(run.reads) < MaxReads
    /\ \E program_id \in ReadIds :
          LET r == get_program(Cursor(db), program_id, clock)
          IN /\ db' = r.cu.t
             /\ writes' = writes \o r.cu.w
             /\ run' = [run EXCEPT !.reads = Append(@, <<program_id, clock, r.res>>)]
    /\ UNCHANGED <<committed, remote, clock, pc, hist, cfg, exitstatus>>

\* dump.write(dumpfile) and the end of the script: the connection is dropped
\* without a commit, the statements of the process are lost
ExportEnd ==
    /\ pc = "export"
    /\ db' = committed
    /\ pc' = "idle"
    /\ exitstatus' = Some(0)
    /\ UNCHANGED <<committed, remote, clock, run, writes, hist, cfg>>

NextExport ==
    \/ ExportStart
    \/ ExportRead
    \/ ExportEnd

SpecExport == InitExport /\ [][NextExport]_vars

\* the programdata row of the identifier, None if there is none
ProgramRow(tables, program_id) ==
    LET hits == {r \in Range(tables.programdata) : SqlEq(r["program_id"], program_id)}
    IN IF hits = {} THEN None ELSE Some(CHOOSE r \in hits : TRUE)

\* the read of the step, as the connection of the process sees it: for a
\* stored identifier the row is returned, its last_access becomes the time of
\* the read and nothing else changes; for an identifier that is not stored or
\* is None nothing is returned and nothing written
ReadInTransaction ==
    (pc = "export" /\ pc' = "export") =>
        LET read == run'.reads[Len(run'.reads)]
            row == ProgramRow(db, read[1])
        IN IF row = None
           THEN read[3] = None /\ db' = db /\ writes' = writes
           ELSE /\ read[3] = row
                /\ ProgramRow(db', read[1]) = Some([row[1] EXCEPT !["last_access"] = Some(read[2])])
                /\ \A p \in ReadIds \ {read[1]} : ProgramRow(db', p) = ProgramRow(db, p)
                /\ \A table \in DOMAIN db \ {"programdata"} : db'[table] = db[table]

\* when the process has ended, the file holds the time of the read as the
\* last_access of every program that was read
ReadPersisted ==
    (pc = "export" /\ pc' = "idle") =>
        \A i \in 1..Len(run.reads) :
            ProgramRow(committed, run.reads[i][1]) # None =>
                ProgramRow(committed', run.reads[i][1])[1]["last_access"] = Some(run.reads[i][2])

\* C30: every get_program of a stored identifier returns the row and sets
\* its last_access to the time of the read, in the file the export leaves
\* behind, and changes nothing else; a get_program of an identifier that is
\* not stored or is None returns None and writes nothing.
C30_LastAccessOnRead == [][ReadInTransaction /\ ReadPersisted]_vars

(***************************************************************************)
(* The compact name/role lists.  Here a string is the sequence of its      *)
(* characters, so that joining and splitting are what the code does; a     *)
(* value of the splitter is [type |-> "str", value |-> string] or          *)
(* [type |-> "list", value |-> the parts].                                 *)
(***************************************************************************)
\* items of one list
MaxItems == 2

\* names and roles of the items; some hold a delimiter
ItemNames == {<<>>, <<"a">>, <<"a", "b">>, <<"|">>, <<"a", "|", "b">>, <<"a", "\t", "b">>}
ItemRoles == {<<>>, <<"r">>, <<"r", "|">>, <<"\t">>}

\* the entries of a cast or crew list: a name, with or without a role
CrewItems == [name : ItemNames] \cup [name : ItemNames, role : ItemRoles]

RECURSIVE CrewListsOf(_)
CrewListsOf(n) ==
    IF n = 0 THEN {<<>>}
    ELSE LET shorter == CrewListsOf(n - 1)
         IN shorter \cup {Append(l, item) : l \in {x \in shorter : Len(x) = n - 1},
                                           item \in CrewItems}

\* _get_cast_crew_string on strings written as sequences of characters
_get_cast_crew_chars(list_of_dicts, name_key, role_key) ==
    LET clist == [i \in 1..Len(list_of_dicts) |->
                     LET s == list_of_dicts[i][name_key]
                         s1 == RecGet(list_of_dicts[i], role_key)
                     IN IF s1 # None THEN s \o <<"|">> \o s1[1] ELSE s]
    IN IF clist = <<>> THEN None ELSE Some(JoinStr(clist, <<"\t">>))

\* str.split(sep) for a separator of one character
RECURSIVE split(_, _)
split(s, sep) ==
    IF sep \notin Range(s) THEN <<s>>
    ELSE LET i == IndexOf(s, sep)
         IN <<SubSeq(s, 1, i - 1)>> \o split(SubSeq(s, i + 1, Len(s)), sep)

\* a splitter that always combines name and role
tab_and_vertical_splitter_single(basestring, make_single) ==
    LET dat == split(basestring, "\t")
    IN [k \in 1..Len(dat) |->
           LET y == split(dat[k], "|")
           IN IF Len(y) > 1
              THEN [type |-> "str", value |-> y[1] \o <<" ", "(">> \o y[2] \o <<")">>]
              ELSE [type |-> "str", value |-> y[1]]]

\* lib/util.py tab_and_vertical_splitter
tab_and_vertical_splitter(basestring, make_single) ==
    LET dat == split(basestring, "\t")
    IN [k \in 1..Len(dat) |->
           LET y == split(dat[k], "|")
           IN IF Len(y) > 1
              THEN IF make_single
                   THEN [type |-> "str", value |-> y[1] \o <<" ", "(">> \o y[2] \o <<")">>]
                   ELSE [type |-> "list", value |-> y]
              ELSE [type |-> "str", value |-> y[1]]]

InitCodec ==
    /\ db = EmptyTables
    /\ committed = EmptyTables
    /\ remote = InitRemote
    /\ clock = 0
    /\ pc = "program"
    /\ \E l \in CrewListsOf(MaxItems) :
          run = [list_of_dicts |-> l, string |-> None, items |-> None]
    /\ writes = <<>>
    /\ hist = [changes |-> 0, remoteAtCommit |-> None]
    /\ cfg = ConfiguredCfg
    /\ exitstatus = None

\* store_programs: qb.add2("crew1000", "crew", ..., conv_fun=get_crew_string)
EncodeCrew ==
    /\ pc = "program"
    /\ run' = [run EXCEPT !.string = _get_cast_crew_chars(run.list_of_dicts, "name", "role")]
    /\ pc' = "stored"
    /\ UNCHANGED <<db, committed, remote, clock, writes, hist, cfg, exitstatus>>

\* genepg.py crew_splitter: tab_and_vertical_splitter(x, make_single=False)
SplitCrew ==
    /\ pc = "stored"
    /\ run.string # None
    /\ run' = [run EXCEPT !.items = Some(tab_and_vertical_splitter(run.string[1], FALSE))]
    /\ pc' = "split"
    /\ UNCHANGED <<db, committed, remote, clock, writes, hist, cfg, exitstatus>>

NextCodec ==
    \/ EncodeCrew
    \/ SplitCrew

SpecCodec == InitCodec /\ [][NextCodec]_vars

\* no name and no role of the list holds a tab or a vertical bar
DelimiterFree(list_of_dicts) ==
    \A i \in 1..Len(list_of_dicts) :
        /\ Range(list_of_dicts[i].name) \cap {"\t", "|"} = {}
        /\ "role" \in DOMAIN list_of_dicts[i] =>
               Range(list_of_dicts[i].role) \cap {"\t", "|"} = {}

\* the items as the splitter is to give them back
SplitItems(list_of_dicts) ==
    [i \in 1..Len(list_of_dicts) |->
        IF "role" \in DOMAIN list_of_dicts[i]
        THEN [type |-> "list", value |-> <<list_of_dicts[i].name, list_of_dicts[i].role>>]
        ELSE [type |-> "str", value |-> list_of_dicts[i].name]]

\* C31: for a list whose names and roles hold neither a tab nor a vertical
\* bar, splitting the string _get_cast_crew_string has made gives the items
\* back in their order, (name, role) for an item with a role and the bare
\* name for one without; a list that is not empty has a string.
C31_CompactRoundTrip ==
    DelimiterFree(run.list_of_dicts) =>
        /\ (pc # "program" /\ run.list_of_dicts # <<>>) => run.string # None
        /\ pc = "split" => run.items = Some(SplitItems(run.list_of_dicts))

\* a list of an item with a role and an item without has been split
C31_Witness ==
    /\ pc = "split"
    /\ DelimiterFree(run.list_of_dicts)
    /\ Len(run.list_of_dicts) = 2
    /\ "role" \in DOMAIN run.list_of_dicts[1]
    /\ "role" \notin DOMAIN run.list_of_dicts[2]
    /\ run.list_of_dicts[1].name # <<>>
    /\ run.list_of_dicts[2].name # <<>>

(***************************************************************************)
(* The watch set, on SpecRun.                                              *)
(***************************************************************************)
\* the stations that are marked for querying and active
WatchStations(tables) ==
    {r["station_id"][1] : r \in {x \in Range(tables.stations) :
                                    x["query_from_sd"] = Some(1) /\ x["active"] = Some(1)}}

\* the chunks of the run, one after the other
RECURSIVE Flatten(_)
Flatten(chunks) == IF Len(chunks) = 0 THEN <<>> ELSE Head(chunks) \o Flatten(Tail(chunks))

\* the stations the answer to a fingerprint request is about
FingerprintStations(dat) == [i \in 1..Len(dat) |-> dat[i][1]]

\* C32: the stations stage A hands to stage B are exactly those that are
\* marked for querying and active in the tables stage A leaves, each once;
\* every fingerprint request is for the stations of the current chunk, all of
\* them in the watch set; a run is in the stages B to D only with a watch set
\* that is not empty, and a run whose watch set is empty goes from stage A
\* to the commit with the tables as stage A left them, nothing fetched and
\* no statement on the schedule tables.
C32_WatchSetOnly ==
    [][/\ (pc = "stageA" /\ pc' # "raised") =>
             /\ Range(Flatten(run'.chunks)) = WatchStations(db')
             /\ Len(Flatten(run'.chunks)) = Cardinality(WatchStations(db'))
             /\ pc' = (IF WatchStations(db') = {} THEN "commit" ELSE "stageB")
       /\ (pc = "stageB" /\ run' # run) =>
             /\ FingerprintStations(run'.dat[1]) = Head(run.chunks)
             /\ Range(Head(run.chunks)) \subseteq WatchStations(db)
       /\ pc \in {"stageB", "stageC", "stageD"} => WatchStations(db) # {}
       /\ (pc = "commit" /\ WatchStations(db) = {}) =>
             /\ db = hist.afterA[1]
             /\ run.dat = None /\ run.schedules = None /\ run.artwork_info = None
             /\ \A i \in 1..Len(writes) : writes[i][2] \notin ScheduleTables
             /\ db' = db /\ committed' = db /\ pc' = "idle"]_vars

\* stage B is about to ask for the fingerprints of a watch set that leaves
\* out an active station that is not marked for querying
C32_Witness ==
    /\ pc = "stageB"
    /\ run.dat = None
    /\ Len(run.chunks) = 1
    /\ \E r \in Range(db.stations) :
          /\ r["active"] = Some(1)
          /\ r["query_from_sd"] # Some(1)
          /\ r["station_id"][1] \notin Range(Head(run.chunks))

(***************************************************************************)
(* The schema upgrade with a plan.  A plan is a list of (version, file);   *)
(* files is the set of the script files that exist.  A script sets PRAGMA  *)
(* user_version to its version, as the docstring requires of it.           *)
(***************************************************************************)
\* the largest schema version
MaxVersion == 3

SchemaVersions == 0..MaxVersion

\* the file of the script that leads to a version
ScriptFile(v) == "upgrade_" \o ToString(v) \o ".sql"

\* the plans: a script for some of the versions, in any order
RECURSIVE PlansOf(_)
PlansOf(n) ==
    IF n = 0 THEN {<<>>}
    ELSE LET shorter == PlansOf(n - 1)
         IN shorter \cup {Append(p, <<v, ScriptFile(v)>>) :
                             p \in {x \in shorter : Len(x) = n - 1},
                             v \in 1..MaxVersion}

UpgradePlans == {p \in PlansOf(MaxVersion) : \A i, j \in 1..Len(p) : i # j => p[i][1] # p[j][1]}

\* the loop over the plan; acc = [ok, applied, user_version]
RECURSIVE ApplyPlan(_, _, _, _)
ApplyPlan(acc, vers, upgrade_plan, files) ==
    IF Len(upgrade_plan) = 0 \/ ~acc.ok THEN acc
    ELSE LET uvers == Head(upgrade_plan)[1]
             ufnm == Head(upgrade_plan)[2]
         IN IF vers < uvers
            THEN IF ufnm \notin files
                 THEN [acc EXCEPT !.ok = FALSE]
                 ELSE ApplyPlan([acc EXCEPT !.applied = Append(@, uvers),
                                            !.user_version = uvers],
                                vers, Tail(upgrade_plan), files)
            ELSE ApplyPlan(acc, vers, Tail(upgrade_plan), files)

\* an upgrade that goes on after a missing file
upgrade_with_plan_skipping(user_version, current_schema_version, upgrade_plan, files) ==
    LET present == SelectSeq(upgrade_plan, LAMBDA s : s[2] \in files)
    IN IF user_version = current_schema_version
       THEN [ok |-> TRUE, applied |-> <<>>, user_version |-> user_version]
       ELSE ApplyPlan([ok |-> TRUE, applied |-> <<>>, user_version |-> user_version],
                      user_version, present, files)

\* SDDB.upgrade_database_schema with a plan: [ok, applied, user_version], ok
\* the value returned, applied the versions of the scripts executed
upgrade_with_plan(user_version, current_schema_version, upgrade_plan, files) ==
    IF user_version = current_schema_version
    THEN [ok |-> TRUE, applied |-> <<>>, user_version |-> user_version]
    ELSE ApplyPlan([ok |-> TRUE, applied |-> <<>>, user_version |-> user_version],
                   user_version, upgrade_plan, files)

InitUpgrade ==
    /\ \E v \in SchemaVersions : db = [EmptyTables EXCEPT !.user_version = v]
    /\ committed = db
    /\ remote = InitRemote
    /\ clock = 0
    /\ pc = "upgrade"
    /\ \E c \in SchemaVersions, p \in UpgradePlans, f \in SUBSET {ScriptFile(v) : v \in 1..MaxVersion} :
          run = [current_schema_version |-> c, upgrade_plan |-> p, files |-> f,
                 ok |-> None, applied |-> <<>>]
    /\ writes = <<>>
    /\ hist = [changes |-> 0, remoteAtCommit |-> None]
    /\ cfg = ConfiguredCfg
    /\ exitstatus = None

\* db.upgrade_database_schema(current_schema_version, upgrade_plan)
Upgrade ==
    /\ pc = "upgrade"
    /\ LET r == upgrade_with_plan(db.user_version, run.current_schema_version,
                                  run.upgrade_plan, run.files)
       IN /\ db' = [db EXCEPT !.user_version = r.user_version]
          /\ run' = [run EXCEPT !.ok = Some(r.ok), !.applied = r.applied]
    /\ pc' = "upgraded"
    /\ UNCHANGED <<committed, remote, clock, writes, hist, cfg, exitstatus>>

NextUpgrade == Upgrade

SpecUpgrade == InitUpgrade /\ [][NextUpgrade]_vars

\* the versions of a set in ascending order
RECURSIVE Ascending(_)
Ascending(versions) ==
    IF versions = {} THEN <<>>
    ELSE LET m == CHOOSE v \in versions : \A w \in versions : v <= w
         IN <<m>> \o Ascending(versions \ {m})

\* the versions of the plan above the stored one, in the order of the plan
Due(upgrade_plan, vers) ==
    LET due == SelectSeq(upgrade_plan, LAMBDA s : vers < s[1])
    IN [i \in 1..Len(due) |-> due[i][1]]

\* the scripts of the plan that are due before the first whose file is missing
RECURSIVE DueUntilMissing(_, _, _)
DueUntilMissing(upgrade_plan, vers, files) ==
    IF Len(upgrade_plan) = 0 THEN <<>>
    ELSE IF vers < Head(upgrade_plan)[1]
    THEN IF Head(upgrade_plan)[2] \notin files THEN <<>>
         ELSE <<Head(upgrade_plan)[1]>> \o DueUntilMissing(Tail(upgrade_plan), vers, files)
    ELSE DueUntilMissing(Tail(upgrade_plan), vers, files)

\* the plan lists its versions in ascending order
IsAscending(upgrade_plan) ==
    \A i, j \in 1..Len(upgrade_plan) : i < j => upgrade_plan[i][1] < upgrade_plan[j][1]

\* C33 as stated: with a stored version below the required one the scripts
\* executed are those of the plan with a version above the stored one, in
\* ascending order of the versions, each once; with the stored version equal
\* to the required one no script is executed and True is returned.
C33_UpgradeAscending ==
    [][pc = "upgrade" =>
          /\ db.user_version < run.current_schema_version =>
                 run'.applied = Ascending({s[1] : s \in {x \in Range(run.upgrade_plan) :
                                                            db.user_version < x[1]}})
          /\ db.user_version = run.current_schema_version =>
                 run'.applied = <<>> /\ run'.ok = Some(TRUE) /\ db' = db]_vars

\* C33, amended: with a stored version below the required one the scripts
\* executed are those of the plan with a version above the stored one, in
\* the order of the plan (ascending when the plan is), each once, up to the
\* first of them whose file is missing; True is returned if none is missing,
\* False otherwise; with the stored version equal to the required one no
\* script is executed and True is returned.
C33_UpgradeInPlanOrder ==
    [][pc = "upgrade" =>
          /\ db.user_version < run.current_schema_version =>
                 /\ run'.applied = DueUntilMissing(run.upgrade_plan, db.user_version, run.files)
                 /\ run'.ok = Some(run'.applied = Due(run.upgrade_plan, db.user_version))
                 /\ (IsAscending(run.upgrade_plan) /\ run'.ok = Some(TRUE)) =>
                        run'.applied = Ascending({s[1] : s \in {x \in Range(run.upgrade_plan) :
                                                                   db.user_version < x[1]}})
          /\ db.user_version = run.current_schema_version =>
                 run'.applied = <<>> /\ run'.ok = Some(TRUE) /\ db' = db]_vars

\* an upgrade from a version below the required one has executed the first
\* due script of an ascending plan and stopped at the missing file of the next
C33_Witness ==
    /\ pc = "upgraded"
    /\ run.ok = Some(FALSE)
    /\ IsAscending(run.upgrade_plan)
    /\ Len(run.applied) = 1
    /\ Len(run.upgrade_plan) = MaxVersion
    /\ db.user_version < run.current_schema_version

(***************************************************************************)
(* What a commit holds, on Spec.                                           *)
(***************************************************************************)
\* the (program, airtime) of the entries the service lists for the day of an
\* index row under the fingerprint the row holds
EntriesUnder(r) ==
    LET d == CHOOSE d \in Range(Days) : r["startdate"] = date_to_int(d)
        lineup == ScheduleLineup(r["station_id"][1], d, r["md5"][1])
    IN [i \in 1..Len(lineup) |->
           <<Some(lineup[i].programID),
             sdtime_to_unixtime(<<d[1], d[2], d[3], lineup[i].hour, 0, 0>>)>>]

\* every index row of the tables has the entries of its fingerprint, in
\* order and each once, and a programdata row for the program of each
IndexComplete(tables) ==
    \A r \in Range(tables.scheduleindex) :
        /\ StoredEntryKeys(OwnedBy(tables, r["id"])) = EntriesUnder(r)
        /\ \A e \in Range(OwnedBy(tables, r["id"])) :
              \E p \in Range(tables.programdata) : p["program_id"] = e["program_id"]

\* C34: in the committed tables every scheduleindex row has the entries that
\* were fetched under the fingerprint it holds, and the programs of these
\* entries are stored: a fingerprint is never committed without its entries
\* and programs, whatever runs have aborted; between the runs the tables
\* are the committed ones.
C34_CommitAtomicity ==
    /\ IndexComplete(committed)
    /\ (pc = "idle" => db = committed)

\* the committed tables hold a day whose fingerprint a run has replaced, with
\* its entries, after a run that had written to the index was aborted
C34_Witness ==
    /\ pc = "idle"
    /\ exitstatus = Some(100)
    /\ \E i \in 1..Len(writes) : writes[i][2] = "scheduleindex"
    /\ \E r \in Range(committed.scheduleindex) :
          r["md5"] = Some("F2") /\ Len(OwnedBy(committed, r["id"])) > 0

(***************************************************************************)
(* Days reported with the sentinel, on Spec.                               *)
(***************************************************************************)
\* C35: a stage B whose fingerprint answer holds days with the sentinel
\* fingerprint does not end the run: the run goes on to stage C for the
\* other days that are dirty, or to the next chunk or the commit when there
\* are none, the sentinel days being counted only.
C35_SentinelDoesNotAbort ==
    [][(pc = "stageB" /\ run' # run /\ run'.count_invalid_schedules > 0) =>
          pc' = (IF Len(run'.open_schedules) > 0 THEN "stageC" ELSE AfterChunk(run.chunks))]_vars

(***************************************************************************)
(* The artwork resolver on a batch: SpecArtworkBatch applies               *)
(* proc_program_artwork_info to the answer for two shortened ids, each     *)
(* with an error entry, an empty list or a list of one or two assets.      *)
(***************************************************************************)
\* what the service answers for one id: None stands for an error entry,
\* whose "data" is an object and no list
ArtworkAnswers ==
    {None, Some(<<>>), Some(<<PlainAsset(1), PlainAsset(2)>>),
     Some(<<PlainAsset(1), Asset(2, "Logo", "Xl")>>)}
        \cup {Some(l) : l \in AssetListsOf(1)}

InitArtworkBatch ==
    /\ db = EmptyTables
    /\ committed = EmptyTables
    /\ remote = InitRemote
    /\ clock = 0
    /\ pc = "artwork"
    /\ \E a \in ArtworkAnswers, b \in ArtworkAnswers :
          run = [data |-> <<[programID |-> shorten_program_id(EP1a), data |-> a],
                            [programID |-> shorten_program_id(MV2), data |-> b]>>,
                 res |-> None]
    /\ writes = <<>>
    /\ hist = [changes |-> 0, remoteAtCommit |-> None]
    /\ cfg = ConfiguredCfg
    /\ exitstatus = None

\* artwork_info = sd_api.proc_program_artwork_info(all_artwork_dat)
ResolveBatch ==
    /\ pc = "artwork"
    /\ run' = [run EXCEPT !.res = Some(proc_program_artwork_info(run.data))]
    /\ pc' = "resolved"
    /\ UNCHANGED <<db, committed, remote, clock, writes, hist, cfg, exitstatus>>

NextArtworkBatch == ResolveBatch

SpecArtworkBatch == InitArtworkBatch /\ [][NextArtworkBatch]_vars

\* the answer for the id has an asset with a category and a size
HasUsable(program_art) ==
    program_art.data # None /\ Usable(program_art.data[1]) # <<>>

\* the answer is an error entry
IsErrorEntry(program_art) == program_art.data = None

\* C36: the resolver raises no error; it gives no entry for an id whose
\* answer is an error entry or lists no asset with both a category and a
\* size, and an entry for every other id of the batch.
C36_UnusableArtworkSkipped ==
    pc = "resolved" =>
        /\ ~run.res[1].exc
        /\ \A i \in 1..Len(run.data) :
              DictHas(run.res[1].res, run.data[i].programID) <=> HasUsable(run.data[i])

\* the part of C36 about error entries: in a batch whose other answers have
\* a usable asset, an error entry raises no error and gets no entry, and the
\* other ids get theirs
ErrorEntrySkipped ==
    (pc = "resolved" /\ \A i \in 1..Len(run.data) :
                           IsErrorEntry(run.data[i]) \/ HasUsable(run.data[i])) =>
        /\ ~run.res[1].exc
        /\ \A i \in 1..Len(run.data) :
              DictHas(run.res[1].res, run.data[i].programID) <=> HasUsable(run.data[i])

(***************************************************************************)
(* The rows of the schedule index, on Spec.                                *)
(***************************************************************************)
\* the ids of the rows of a (station, day)
IndexIds(tables, k) == {r["id"] : r \in IndexRows(tables, k[1], k[2])}

\* no (station, day) has two rows and no id is held by two rows
IndexUnique(tables) ==
    /\ \A k \in StationDays : Cardinality(IndexRows(tables, k[1], k[2])) <= 1
    /\ \A i, j \in 1..Len(tables.scheduleindex) :
          tables.scheduleindex[i]["id"] = tables.scheduleindex[j]["id"] => i = j
    /\ \A r \in Range(tables.scheduleindex) : r["id"] # None

\* C37: the tables, as worked on and as committed, never hold two
\* scheduleindex rows for a (station, day), nor two rows with one id; the
\* row of a (station, day) keeps its id in every step, also in the one that
\* stores another fingerprint for the day.
C37_IndexUniqueStableId ==
    [][/\ IndexUnique(db') /\ IndexUnique(committed')
       /\ \A k \in StationDays :
             /\ (IndexRows(db, k[1], k[2]) # {} /\ IndexRows(db', k[1], k[2]) # {}) =>
                    IndexIds(db', k) = IndexIds(db, k)
             /\ (IndexRows(committed, k[1], k[2]) # {}
                   /\ IndexRows(committed', k[1], k[2]) # {}) =>
                    IndexIds(committed', k) = IndexIds(committed, k)]_vars

\* a run has stored another fingerprint for a day in the row the day had, and
\* the row owns entries again
C37_Witness ==
    /\ pc = "commit"
    /\ \E k \in StationDays :
          /\ FingerprintReplaced(k[1], k[2])
          /\ IndexIds(db, k) = IndexIds(committed, k)
          /\ \E r \in IndexRows(db, k[1], k[2]) : Len(OwnedBy(db, r["id"])) > 0

(***************************************************************************)
(* The programs of the entries of a run, on Spec.  The service of Spec     *)
(* answers every program request with a record for each requested id.      *)
(***************************************************************************)
\* the tables hold the program with the fingerprint
ProgramStored(tables, program_id, md5) ==
    \E p \in Range(tables.programdata) :
        p["program_id"] = Some(program_id) /\ p["md5"] = Some(md5)

\* the programs of the entries the statements of the log insert
InsertedEntries(log) ==
    {log[i][3]["program_id"] : i \in {j \in 1..Len(log) :
                                         log[j][1] = "INSERT" /\ log[j][2] = "schedule"}}

\* C38: when a run is at its second commit, every entry it has inserted
\* belongs to an item of its schedule answer, and for every program of that
\* answer the tables hold a programdata row with the identifier and with the
\* fingerprint the entry carries.
C38_ProgramsAvailable ==
    pc = "commit" =>
        /\ InsertedEntries(writes) # {} => run.schedules # None
        /\ run.schedules # None =>
              /\ InsertedEntries(writes) =
                    {Some(p.programID) : p \in Range(ReferencedPrograms(run.schedules[1]))}
              /\ \A p \in Range(ReferencedPrograms(run.schedules[1])) :
                    ProgramStored(db, p.programID, p.md5)

\* a run at its second commit has inserted an entry for a program that the
\* committed tables hold with another fingerprint
C38_Witness ==
    /\ pc = "commit"
    /\ run.schedules # None
    /\ \E p \in Range(ReferencedPrograms(run.schedules[1])) :
          /\ Some(p.programID) \in InsertedEntries(writes)
          /\ \E q \in Range(committed.programdata) :
                q["program_id"] = Some(p.programID) /\ q["md5"] # Some(p.md5)

(***************************************************************************)
(* The retry wait, on SpecRun.  clock is int(time.time()) of the run.      *)
(***************************************************************************)
\* C39: a run whose configuration holds a waituntil that is not 0 and later
\* than the time of the run ends with status 10 before the token request,
\* the schema check and any statement: tables, configuration and the locals
\* of the run are as at its start.  With a waituntil that is 0 or not later
\* than the time of the run, the run does not end with status 10 and goes on
\* to the token request when the access data are configured.
C39_RetryGate ==
    [][(pc = "config" /\ pc' # "crashed") =>
          IF cfg.waituntil # 0 /\ cfg.waituntil > clock
          THEN /\ pc' = "idle"
               /\ exitstatus' = Some(10)
               /\ run' = RunLocals
               /\ db' = db /\ committed' = committed /\ writes' = <<>> /\ cfg' = cfg
          ELSE /\ exitstatus' # Some(10)
               /\ cfg.username # "" => pc' = "token"]_vars

\* a run has ended with status 10 at a time before the waituntil of the
\* configuration
C39_Witness ==
    /\ pc = "idle"
    /\ exitstatus = Some(10)
    /\ cfg.waituntil > clock
    /\ run = RunLocals

\* a run is past the gate with a waituntil that lies in the past
WaitIsOver ==
    /\ pc = "token"
    /\ cfg.waituntil # 0
    /\ cfg.waituntil < clock

(***************************************************************************)
(* The chunked loops of __main__: for chunk in chunker(list, limit), one   *)
(* call of the service per chunk.  The loops pass MAX_STATIONS_IDS,        *)
(* MAX_ARTWORK_IDS and MAX_PROGRAM_IDS; here the limit is drawn from       *)
(* 1..MaxChunk so that lists longer than one chunk occur.  run is          *)
(* [api, seq, size, chunks, pos, calls]: the call of the loop, the list,   *)
(* the limit, the chunks of the generator, the index of the next chunk and *)
(* the identifier lists of the calls made.                                 *)
(***************************************************************************)
MaxSeqLen == 4
MaxChunk == 3
ChunkIds == {"a", "b", "c"}

\* the loops: the call each makes per chunk
ChunkedCalls == {"get_schedules_md5_max", "get_program_artwork_max", "get_programs_max"}

\* the lists of at most n identifiers
RECURSIVE IdListsOf(_)
IdListsOf(n) ==
    IF n = 0 THEN {<<>>}
    ELSE LET shorter == IdListsOf(n - 1)
         IN shorter \cup {Append(l, i) : l \in {x \in shorter : Len(x) = n - 1},
                                         i \in ChunkIds}

InitChunker ==
    /\ db = EmptyTables
    /\ committed = EmptyTables
    /\ remote = InitRemote
    /\ clock = 0
    /\ pc = "list"
    /\ \E api \in ChunkedCalls, l \in IdListsOf(MaxSeqLen), n \in 1..MaxChunk :
          run = [api |-> api, seq |-> l, size |-> n, chunks |-> <<>>, pos |-> 1,
                 calls |-> <<>>]
    /\ writes = <<>>
    /\ hist = [changes |-> 0, remoteAtCommit |-> None]
    /\ cfg = ConfiguredCfg
    /\ exitstatus = None

\* for chunk in chunker(seq, size): the generator is made
ChunkLoopStart ==
    /\ pc = "list"
    /\ run' = [run EXCEPT !.chunks = chunker(run.seq, run.size)]
    /\ pc' = "loop"
    /\ UNCHANGED <<db, committed, remote, clock, writes, hist, cfg, exitstatus>>

\* the body of the loop: the call of the service with the chunk
ChunkCall ==
    /\ pc = "loop"
    /\ run.pos <= Len(run.chunks)
    /\ run' = [run EXCEPT !.calls = Append(@, <<run.api, run.chunks[run.pos]>>),
                          !.pos = @ + 1]
    /\ pc' = "loop"
    /\ UNCHANGED <<db, committed, remote, clock, writes, hist, cfg, exitstatus>>

\* the generator is exhausted
ChunkLoopEnd ==
    /\ pc = "loop"
    /\ run.pos > Len(run.chunks)
    /\ pc' = "sent"
    /\ UNCHANGED <<db, committed, remote, clock, run, writes, hist, cfg, exitstatus>>

NextChunker ==
    \/ ChunkLoopStart
    \/ ChunkCall
    \/ ChunkLoopEnd

SpecChunker == InitChunker /\ [][NextChunker]_vars

\* the identifier lists of the calls, in the order of the calls
SentIds(calls) == Flatten([i \in 1..Len(calls) |-> calls[i][2]])

\* C40: the chunks of chunker(seq, n) have between 1 and n elements each and
\* their concatenation is seq; an empty seq has no chunk; the loop calls
\* the service once per chunk, in order, so that at each point of the loop
\* the identifiers sent are a prefix of the list and at its end they are the
\* list, each at its position in exactly one call.
C40_ChunksLoseNothing ==
    pc \in {"loop", "sent"} =>
        /\ \A i \in 1..Len(run.chunks) :
               Len(run.chunks[i]) >= 1 /\ Len(run.chunks[i]) <= run.size
        /\ Flatten(run.chunks) = run.seq
        /\ run.seq = <<>> => run.chunks = <<>>
        /\ \A i \in 1..Len(run.calls) :
               run.calls[i] = <<run.api, run.chunks[i]>>
        /\ SentIds(run.calls) = SubSeq(run.seq, 1, Len(SentIds(run.calls)))
        /\ pc = "sent" => SentIds(run.calls) = run.seq

\* a loop has ended over a list that took several calls, the last with a
\* chunk shorter than the limit
C40_Witness ==
    /\ pc = "sent"
    /\ Len(run.calls) >= 2
    /\ Len(run.calls[Len(run.calls)][2]) < run.size
    /\ Len(run.calls[1][2]) = run.size

\* a loop has ended over an empty list without a call
EmptyListNoCall ==
    /\ pc = "sent"
    /\ run.seq = <<>>
    /\ run.calls = <<>>

====
